---------------------------- MODULE Spec2Model ----------------------------
(***************************************************************************)
(* A model of the tix-scraper booking orchestrator                         *)
(* (src/internal/services/scraper.go): RunScraper and its dispatch loop    *)
(* runMainFlow, the browser session provider getBrowserContext with its    *)
(* cancellation watcher, and the seat-selection script of                  *)
(* executeBookingFlow.                                                     *)
(*                                                                         *)
(* Strings are sequences of one-character strings, so that strconv.Atoi,   *)
(* String.split, String.trim and String.includes are modelled by what they *)
(* do.  Go's int is modelled with IntBits bits (two's complement) instead  *)
(* of 64: the arithmetic wraps at the same relative places.                *)
(***************************************************************************)
EXTENDS Integers, Sequences, FiniteSets, TLC

VARIABLES
    cfg,        \* cfg[b]: the ScraperConfig the run of bot b was started with
    pc,         \* pc[b]: position of bot b's RunScraper goroutine
    exit,       \* exit[b]: which return statement of RunScraper was taken
    numLoops,   \* numLoops[b]: local numLoops of RunScraper
    i,          \* i[b]: loop counter of RunScraper's iteration loop
    succ,       \* succ[b]: how many times runMainFlow returned true (history)
    cancelled,  \* cancelled[b]: the parent context of the run is done
    sid,        \* sid[b]: identity of the browser session the run owns (0: none)
    acq,        \* acq[b]: how many sessions the run has acquired (history)
    sess,       \* sess[b]: state of the run's browser session
    wpc,        \* wpc[b]: position of the watcher goroutine of getBrowserContext
    url,        \* url[b]: URL of the page shown in the run's browser
    users,      \* users[s]: the bots that drove session s (history)
    nextSid,    \* the next fresh session identity
    rel,        \* rel[c]: position and call count of harness caller c of release
    seatIn,     \* input of the seat-selection script: filter and area labels
    seatOut,    \* result of the seat-selection script: clicked index and value
    presaleErr, \* presaleErr[b]: executeBookingFlow last failed for the missing
                \* pre-sale code (history)
    bf,         \* one call of executeBookingFlow or processTicketPage: its
                \* inputs, position, locals and what it did to the page
    sch,        \* one scheduled start of a bot: the clock, the timer, the
                \* context and the position in waitForScheduledTime
    store,      \* the persisted files, the temporary file, fileMutex, and
                \* what readers of the files have seen (history)
    wr,         \* wr[w]: one writer of receipts: position and locals of its
                \* call of safeSaveBooking or saveBooking
    dlg,        \* the dialog listeners of one browser session, the dialogs
                \* the page raised and the goroutines accepting them
    lg,         \* the package-level logger of services: fileLogger, logFile,
                \* guiLogWriter, and each bot's run as far as it logs
    gbot,       \* one bot of the GUI: IsRunning, the stored cancel function
                \* and the run goroutines started for it
    view        \* view[v]: the mutex of a view of the GUI and the position
                \* of the UI goroutine in the view's Layout

runVars  == <<cfg, pc, exit, numLoops, i, succ, cancelled, sid, acq, sess, wpc,
              url, users, nextSid>>
relVars  == <<rel>>
seatVars == <<seatIn, seatOut>>
bookVars == <<bf>>
schedVars == <<sch>>
fileVars == <<store, wr>>
dialogVars == <<dlg>>
logVars  == <<lg>>
botVars  == <<gbot>>
viewVars == <<view>>
\* the variables of the harnesses, which no step of a run touches
harnessVars == <<relVars, seatVars, bookVars, schedVars, fileVars,
                 dialogVars, logVars, botVars, viewVars>>
nonRunVars == <<harnessVars, presaleErr>>
vars     == <<runVars, presaleErr, relVars, seatVars, bookVars, schedVars,
              fileVars, dialogVars, logVars, botVars, viewVars>>
\* what the steps of one harness leave alone
notRel   == <<seatVars, bookVars, schedVars, fileVars, presaleErr,
              dialogVars, logVars, botVars, viewVars>>
notSeat  == <<runVars, presaleErr, relVars, bookVars, schedVars, fileVars,
              dialogVars, logVars, botVars, viewVars>>
notBook  == <<runVars, presaleErr, relVars, seatVars, schedVars, fileVars,
              dialogVars, logVars, botVars, viewVars>>
notSched == <<runVars, presaleErr, relVars, seatVars, bookVars, fileVars,
              dialogVars, logVars, botVars, viewVars>>
notFile  == <<runVars, presaleErr, relVars, seatVars, bookVars, schedVars,
              dialogVars, logVars, botVars, viewVars>>
notDialog == <<runVars, presaleErr, relVars, seatVars, bookVars, schedVars,
               fileVars, logVars, botVars, viewVars>>
notLog   == <<runVars, presaleErr, relVars, seatVars, bookVars, schedVars,
              fileVars, dialogVars, botVars, viewVars>>
notBot   == <<runVars, presaleErr, relVars, seatVars, bookVars, schedVars,
              fileVars, dialogVars, logVars, viewVars>>
notView  == <<runVars, presaleErr, relVars, seatVars, bookVars, schedVars,
              fileVars, dialogVars, logVars, botVars>>

-----------------------------------------------------------------------------
(* Bounds of the model *)

\* width of the modelled Go int (64 in the program)
IntBits == 4

\* how often each harness caller calls release
MaxReleaseCalls == 3

\* longest list of area links the seat-selection script is run on
MaxLabels == 3

\* longest generated seat filter
MaxFilterLen == 3

Bots == {"botA", "botB"}

-----------------------------------------------------------------------------
(* Strings *)

RECURSIVE Pow2(_)
Pow2(n) == IF n = 0 THEN 1 ELSE 2 * Pow2(n - 1)

MaxInt == Pow2(IntBits - 1) - 1
MinInt == - Pow2(IntBits - 1)

\* the value a Go int holds after an arithmetic result x
Wrap(x) == ((x - MinInt) % Pow2(IntBits)) + MinInt

\* Go's integer division truncates toward zero
TruncDiv(a, b) ==
    IF b = 0 THEN 0
    ELSE LET q == (IF a < 0 THEN -a ELSE a) \div (IF b < 0 THEN -b ELSE b)
         IN IF (a < 0) = (b < 0) THEN q ELSE -q

DigitChars == <<"0", "1", "2", "3", "4", "5", "6", "7", "8", "9">>

IsDigit(c) == \E d \in 1..10 : DigitChars[d] = c

DigitVal(c) == (CHOOSE d \in 1..10 : DigitChars[d] = c) - 1

\* decimal text of a natural number below 100
Itoa(n) ==
    IF n < 10 THEN <<DigitChars[n + 1]>>
    ELSE <<DigitChars[(n \div 10) + 1], DigitChars[(n % 10) + 1]>>

RECURSIVE DecimalValue(_)
DecimalValue(ds) ==
    IF ds = <<>> THEN 0
    ELSE 10 * DecimalValue(SubSeq(ds, 1, Len(ds) - 1)) + DigitVal(ds[Len(ds)])

\* strconv.Atoi: optional sign, then at least one digit, nothing else; a value
\* that does not fit the int is a range error
Atoi(s) ==
    LET signed == s # <<>> /\ s[1] \in {"+", "-"}
        digits == IF signed THEN Tail(s) ELSE s
        neg    == signed /\ s[1] = "-"
    IN IF digits = <<>> \/ \E k \in 1..Len(digits) : ~IsDigit(digits[k])
       THEN [ok |-> FALSE, val |-> 0]
       ELSE LET v == IF neg THEN - DecimalValue(digits) ELSE DecimalValue(digits)
            IN IF v > MaxInt \/ v < MinInt
               THEN [ok |-> FALSE, val |-> 0]
               ELSE [ok |-> TRUE, val |-> v]

-----------------------------------------------------------------------------
(* Configurations and URLs *)

\* texts the quantity and max-tickets fields are drawn from: empty, not a
\* number, zero, negative, signed, small, the largest int and one beyond it
QtyStrings ==
    { <<>>, <<"a">>, <<"0">>, <<"-", "1">>, <<"+", "2">>, <<"1">>, <<"2">>,
      <<"3">>, <<"5">>, Itoa(MaxInt), Itoa(MaxInt + 1) }

\* runs that differ in the loop flag and the two numeric fields
PlanConfigs ==
    [Loop : BOOLEAN, PerOrderTicket : QtyStrings, MaxTickets : QtyStrings,
     EventID : {"ev1"}, TicketID : {"tk1"}, PreSaleCode : {""}]

\* runs that differ in which identifiers are known
\* and in whether a pre-sale code was entered
SiteConfigs ==
    [Loop : {TRUE}, PerOrderTicket : {<<"2">>}, MaxTickets : {<<"3">>},
     EventID : {"", "ev1"}, TicketID : {"", "tk1"},
     PreSaleCode : {"", "code"}]

Configs == PlanConfigs \cup SiteConfigs

\* the few configurations used where two runs, or fairness, are explored
SmallConfigs ==
    { [Loop |-> TRUE, PerOrderTicket |-> <<"1">>, MaxTickets |-> <<"2">>,
       EventID |-> "ev1", TicketID |-> "tk1", PreSaleCode |-> ""],
      [Loop |-> FALSE, PerOrderTicket |-> <<"a">>, MaxTickets |-> <<"1">>,
       EventID |-> "ev1", TicketID |-> "", PreSaleCode |-> ""] }

DefaultConfig ==
    [Loop |-> FALSE, PerOrderTicket |-> <<"1">>, MaxTickets |-> <<"1">>,
     EventID |-> "ev1", TicketID |-> "tk1", PreSaleCode |-> ""]

\* A URL is modelled by the set of route patterns it contains; the empty set
\* is a URL that contains none of them (the site root, a login page, ...).
GameURL     == {"activity/game/"}
AreaURL     == {"ticket/area/"}
TicketURL   == {"ticket/ticket/"}
VerifyURL   == {"ticket/verify"}
OrderURL    == {"ticket/order"}
CheckoutURL == {"ticket/checkout"}
RootURL     == {}

PageURLs ==
    {GameURL, AreaURL, TicketURL, VerifyURL, OrderURL, CheckoutURL, RootURL}

\* the switch of runMainFlow: the first case whose pattern the URL contains
Route(u) ==
    IF "activity/game/" \in u THEN "monitorEventPage"
    ELSE IF "ticket/area/" \in u THEN "executeBookingFlow"
    ELSE IF "ticket/ticket/" \in u THEN "processTicketPage"
    ELSE IF "ticket/verify" \in u THEN "verify"
    ELSE IF "ticket/order" \in u THEN "order"
    ELSE IF "ticket/checkout" \in u THEN "checkout"
    ELSE "unknown"

buildInitialURL(c) == IF c.TicketID # "" THEN AreaURL ELSE GameURL

\* the page resetBrowserState navigates to
ResetURL(c) ==
    IF c.EventID # "" /\ c.TicketID # "" THEN AreaURL
    ELSE IF c.EventID # "" THEN GameURL
    ELSE RootURL

-----------------------------------------------------------------------------
(* The iteration plan *)

CeilDiv(a, b) == (a + b - 1) \div b

\* the count would be computed whenever loop mode is requested
IterationCountWheneverLooping(loop, quantity, maxTickets) ==
    IF loop
    THEN TruncDiv(Wrap(Wrap(maxTickets + quantity) - 1), quantity)
    ELSE 1

\* numLoops as RunScraper computes it, in Go int arithmetic
IterationCount(loop, quantity, maxTickets) ==
    IF loop /\ quantity > 0 /\ maxTickets > 0
    THEN TruncDiv(Wrap(Wrap(maxTickets + quantity) - 1), quantity)
    ELSE 1

\* a failed iteration would be skipped
NextIterationSkipping(n, success) == n + 1

\* the loop counter after runMainFlow returned
NextIteration(n, success) == IF success THEN n + 1 ELSE n

-----------------------------------------------------------------------------
(* The browser session *)

FreshSession ==
    [ctxDone |-> FALSE, allocDone |-> FALSE, closes |-> 0, failed |-> FALSE]

\* a cancel function that may be called once only
BrowserCancelOnce(s) ==
    IF s.ctxDone THEN [s EXCEPT !.failed = TRUE]
    ELSE [s EXCEPT !.ctxDone = TRUE, !.closes = @ + 1]

\* browserCancel(): cancels the browser context and closes the browser; a
\* context.CancelFunc does nothing after its first call
BrowserCancel(s) ==
    IF s.ctxDone THEN s
    ELSE [s EXCEPT !.ctxDone = TRUE, !.closes = @ + 1]

\* allocCancel(): cancels the allocator context, the parent of the browser
\* context, and ends the browser process
AllocCancel(s) ==
    IF s.allocDone THEN s
    ELSE [s EXCEPT !.allocDone = TRUE, !.ctxDone = TRUE,
                   !.closes = IF s.ctxDone THEN @ ELSE @ + 1]

TornDown(s) == s.ctxDone /\ s.allocDone

\* every run would get the one session of the process
SharedSessionId(n) == 1

\* chromedp.NewExecAllocator and chromedp.NewContext make a new browser
NewSessionId(n) == n

\* bot b drives its session
Drive(b) == users' = [users EXCEPT ![sid[b]] = @ \cup {b}]

-----------------------------------------------------------------------------
(* RunScraper *)

\* the run leaves through a return statement that skips the deferred release
ReturnLeaking(b, reason) ==
    /\ pc' = [pc EXCEPT ![b] = IF reason = "invalid_max" THEN "returned"
                                 ELSE "release_ctx"]
    /\ exit' = [exit EXCEPT ![b] = reason]

\* a return statement of RunScraper: the deferred browserCancel runs next
Return(b, reason) ==
    /\ pc' = [pc EXCEPT ![b] = "release_ctx"]
    /\ exit' = [exit EXCEPT ![b] = reason]

\* RunScraper is entered: the logger is initialised and the start is logged
Start(b) ==
    /\ pc[b] = "idle"
    /\ pc' = [pc EXCEPT ![b] = "rs_start"]
    /\ UNCHANGED nonRunVars
    /\ UNCHANGED <<cfg, exit, numLoops, i, succ, cancelled, sid, acq, sess,
                   wpc, url, users, nextSid>>

\* getBrowserContext(ctx): a new browser, and the watcher goroutine is started
GetBrowserContext(b) ==
    /\ pc[b] = "rs_start"
    /\ sid' = [sid EXCEPT ![b] = NewSessionId(nextSid)]
    /\ nextSid' = nextSid + 1
    /\ acq' = [acq EXCEPT ![b] = @ + 1]
    /\ sess' = [sess EXCEPT ![b] = FreshSession]
    /\ wpc' = [wpc EXCEPT ![b] = "waiting"]
    /\ pc' = [pc EXCEPT ![b] = "rs_plan"]
    /\ UNCHANGED nonRunVars
    /\ UNCHANGED <<cfg, exit, numLoops, i, succ, cancelled, url, users>>

\* "Determine Loop Count": both fields are parsed, then numLoops is computed
DetermineLoopCount(b) ==
    /\ pc[b] = "rs_plan"
    /\ LET quantity   == Atoi(cfg[b].PerOrderTicket)
           maxTickets == Atoi(cfg[b].MaxTickets)
       IN IF ~quantity.ok
          THEN Return(b, "invalid_quantity") /\ UNCHANGED numLoops
          ELSE IF ~maxTickets.ok
          THEN Return(b, "invalid_max") /\ UNCHANGED numLoops
          ELSE /\ numLoops' = [numLoops EXCEPT ![b] =
                      IterationCount(cfg[b].Loop, quantity.val, maxTickets.val)]
               /\ pc' = [pc EXCEPT ![b] = "rs_nav"]
               /\ UNCHANGED exit
    /\ UNCHANGED nonRunVars
    /\ UNCHANGED <<cfg, i, succ, cancelled, sid, acq, sess, wpc, url, users,
                   nextSid>>

\* the initial chromedp.Run: cookies, Navigate(initialURL), Sleep; it fails
\* when the browser context is done, and may fail otherwise
InitialNavigation(b) ==
    /\ pc[b] = "rs_nav"
    /\ \E ok \in BOOLEAN :
          /\ sess[b].ctxDone => ~ok
          /\ IF ok
             THEN /\ url' = [url EXCEPT ![b] = buildInitialURL(cfg[b])]
                  /\ pc' = [pc EXCEPT ![b] = "rs_loop"]
                  /\ UNCHANGED exit
             ELSE Return(b, "nav_failed") /\ UNCHANGED url
    /\ Drive(b)
    /\ UNCHANGED nonRunVars
    /\ UNCHANGED <<cfg, numLoops, i, succ, cancelled, sid, acq, sess, wpc,
                   nextSid>>

\* the loop head would not look at ctx.Done()
LoopTopWithoutSelect(b) ==
    /\ pc[b] = "rs_loop"
    /\ IF i[b] > numLoops[b] THEN Return(b, "complete")
       ELSE pc' = [pc EXCEPT ![b] = "mf_top"] /\ UNCHANGED exit
    /\ UNCHANGED nonRunVars
    /\ UNCHANGED <<cfg, numLoops, i, succ, cancelled, sid, acq, sess, wpc, url,
                   users, nextSid>>

\* head of "for i := 1; i <= numLoops;": the loop condition, then the select
\* on ctx.Done(), then runMainFlow is called
LoopTop(b) ==
    /\ pc[b] = "rs_loop"
    /\ IF i[b] > numLoops[b] THEN Return(b, "complete")
       ELSE IF cancelled[b] THEN Return(b, "stopped")
       ELSE pc' = [pc EXCEPT ![b] = "mf_top"] /\ UNCHANGED exit
    /\ UNCHANGED nonRunVars
    /\ UNCHANGED <<cfg, numLoops, i, succ, cancelled, sid, acq, sess, wpc, url,
                   users, nextSid>>

\* runMainFlow returned true: i++
IterationSucceeded(b) ==
    /\ pc[b] = "rs_ok"
    /\ i' = [i EXCEPT ![b] = NextIteration(@, TRUE)]
    /\ pc' = [pc EXCEPT ![b] = "rs_loop"]
    /\ UNCHANGED nonRunVars
    /\ UNCHANGED <<cfg, exit, numLoops, succ, cancelled, sid, acq, sess, wpc,
                   url, users, nextSid>>

\* a failed iteration would end the run
IterationFailedEndingRun(b) ==
    /\ pc[b] = "rs_fail"
    /\ Return(b, "iteration_failed")
    /\ UNCHANGED nonRunVars
    /\ UNCHANGED <<cfg, numLoops, i, succ, cancelled, sid, acq, sess, wpc, url,
                   users, nextSid>>

\* runMainFlow returned false: Sleep(2s), then resetBrowserState, whose
\* navigation error is ignored
IterationFailed(b) ==
    /\ pc[b] = "rs_fail"
    /\ i' = [i EXCEPT ![b] = NextIteration(@, FALSE)]
    /\ \E ok \in BOOLEAN :
          /\ sess[b].ctxDone => ~ok
          /\ url' = [url EXCEPT ![b] = IF ok THEN ResetURL(cfg[b]) ELSE @]
    /\ Drive(b)
    /\ pc' = [pc EXCEPT ![b] = "rs_loop"]
    /\ UNCHANGED nonRunVars
    /\ UNCHANGED <<cfg, exit, numLoops, succ, cancelled, sid, acq, sess, wpc,
                   nextSid>>

\* the deferred release, first half: browserCancel()
ReleaseBrowserCancel(b) ==
    /\ pc[b] = "release_ctx"
    /\ sess' = [sess EXCEPT ![b] = BrowserCancel(@)]
    /\ pc' = [pc EXCEPT ![b] = "release_alloc"]
    /\ UNCHANGED nonRunVars
    /\ UNCHANGED <<cfg, exit, numLoops, i, succ, cancelled, sid, acq, wpc, url,
                   users, nextSid>>

\* the deferred release, second half: allocCancel(); RunScraper has returned
ReleaseAllocCancel(b) ==
    /\ pc[b] = "release_alloc"
    /\ sess' = [sess EXCEPT ![b] = AllocCancel(@)]
    /\ pc' = [pc EXCEPT ![b] = "returned"]
    /\ UNCHANGED nonRunVars
    /\ UNCHANGED <<cfg, exit, numLoops, i, succ, cancelled, sid, acq, wpc, url,
                   users, nextSid>>

-----------------------------------------------------------------------------
(* runMainFlow, called with the browser context *)

\* head of a dispatch cycle: the select on ctx.Done()
MainFlowCheck(b) ==
    /\ pc[b] = "mf_top"
    /\ pc' = [pc EXCEPT ![b] = IF sess[b].ctxDone THEN "rs_fail" ELSE "mf_url"]
    /\ UNCHANGED nonRunVars
    /\ UNCHANGED <<cfg, exit, numLoops, i, succ, cancelled, sid, acq, sess, wpc,
                   url, users, nextSid>>

\* chromedp.Run(ctx, chromedp.Location(&currentURL)) returns an error, as it
\* does on a context that is done: return false
LocationFails(b) ==
    /\ pc[b] = "mf_url"
    /\ pc' = [pc EXCEPT ![b] = "rs_fail"]
    /\ Drive(b)
    /\ UNCHANGED nonRunVars
    /\ UNCHANGED <<cfg, exit, numLoops, i, succ, cancelled, sid, acq, sess, wpc,
                   url, nextSid>>

\* the URL was read from a live browser and routes to handler h
Dispatched(b, h) ==
    /\ pc[b] = "mf_url"
    /\ ~sess[b].ctxDone
    /\ Route(url[b]) = h

\* case activity/game: monitorEventPage navigates to the event page and polls;
\* nil after the click, an error otherwise (return false)
MonitorEventPage(b) ==
    /\ Dispatched(b, "monitorEventPage")
    /\ url' = [url EXCEPT ![b] = GameURL]
    /\ \E ok \in BOOLEAN :
          pc' = [pc EXCEPT ![b] = IF ok THEN "mf_top" ELSE "rs_fail"]
    /\ Drive(b)
    /\ UNCHANGED nonRunVars
    /\ UNCHANGED <<cfg, exit, numLoops, i, succ, cancelled, sid, acq, sess, wpc,
                   nextSid>>

\* handlePreSaleCode as executeBookingFlow sees it: an error when the form is
\* on the page and cfg.PreSaleCode is empty
PreSaleCodeMissing(hasForm, preSaleCode) == hasForm /\ preSaleCode = ""

\* case ticket/area: executeBookingFlow returns false when handlePreSaleCode
\* returned an error, and true only for an attempt after which the URL
\* differs; then Sleep(2s) and continue
ExecuteBookingFlow(b) ==
    /\ Dispatched(b, "executeBookingFlow")
    /\ \E hasForm \in BOOLEAN, ok \in BOOLEAN, u \in PageURLs :
          /\ PreSaleCodeMissing(hasForm, cfg[b].PreSaleCode)
                => (~ok /\ u = url[b])
          /\ ok => u # url[b]
          /\ url' = [url EXCEPT ![b] = u]
          /\ presaleErr' = [presaleErr EXCEPT ![b] =
                               PreSaleCodeMissing(hasForm, cfg[b].PreSaleCode)]
          /\ pc' = [pc EXCEPT ![b] = IF ok THEN "mf_top" ELSE "rs_fail"]
    /\ Drive(b)
    /\ UNCHANGED harnessVars
    /\ UNCHANGED <<cfg, exit, numLoops, i, succ, cancelled, sid, acq, sess, wpc,
                   nextSid>>

\* case ticket/ticket: processTicketPage, with the same outcomes
ProcessTicketPage(b) ==
    /\ Dispatched(b, "processTicketPage")
    /\ \E ok \in BOOLEAN, u \in PageURLs :
          /\ ok => u # url[b]
          /\ url' = [url EXCEPT ![b] = u]
          /\ pc' = [pc EXCEPT ![b] = IF ok THEN "mf_top" ELSE "rs_fail"]
    /\ Drive(b)
    /\ UNCHANGED nonRunVars
    /\ UNCHANGED <<cfg, exit, numLoops, i, succ, cancelled, sid, acq, sess, wpc,
                   nextSid>>

\* case ticket/verify: a log line, then continue
VerifyPage(b) ==
    /\ Dispatched(b, "verify")
    /\ pc' = [pc EXCEPT ![b] = "mf_top"]
    /\ Drive(b)
    /\ UNCHANGED nonRunVars
    /\ UNCHANGED <<cfg, exit, numLoops, i, succ, cancelled, sid, acq, sess, wpc,
                   url, nextSid>>

\* case ticket/order: chromedp.Sleep(2s), its error only logged, then continue
OrderPage(b) ==
    /\ Dispatched(b, "order")
    /\ pc' = [pc EXCEPT ![b] = "mf_top"]
    /\ Drive(b)
    /\ UNCHANGED nonRunVars
    /\ UNCHANGED <<cfg, exit, numLoops, i, succ, cancelled, sid, acq, sess, wpc,
                   url, nextSid>>

\* case ticket/checkout: resetBrowserState, whose navigation error is
\* ignored, then return true
CheckoutPage(b) ==
    /\ Dispatched(b, "checkout")
    /\ \E ok \in BOOLEAN :
          url' = [url EXCEPT ![b] = IF ok THEN ResetURL(cfg[b]) ELSE @]
    /\ succ' = [succ EXCEPT ![b] = @ + 1]
    /\ pc' = [pc EXCEPT ![b] = "rs_ok"]
    /\ Drive(b)
    /\ UNCHANGED nonRunVars
    /\ UNCHANGED <<cfg, exit, numLoops, i, cancelled, sid, acq, sess, wpc,
                   nextSid>>

\* default: time.Sleep(2s), next cycle
UnknownPage(b) ==
    /\ Dispatched(b, "unknown")
    /\ pc' = [pc EXCEPT ![b] = "mf_top"]
    /\ Drive(b)
    /\ UNCHANGED nonRunVars
    /\ UNCHANGED <<cfg, exit, numLoops, i, succ, cancelled, sid, acq, sess, wpc,
                   url, nextSid>>

-----------------------------------------------------------------------------
(* The watcher goroutine of getBrowserContext, and the environment *)

\* the watcher would wait on a context that is never done
WatcherNeverWakes(b) ==
    /\ FALSE
    /\ UNCHANGED vars

\* <-parentCtx.Done() returned: the log line, then browserCancel()
WatcherBrowserCancel(b) ==
    /\ wpc[b] = "waiting"
    /\ cancelled[b]
    /\ sess' = [sess EXCEPT ![b] = BrowserCancel(@)]
    /\ wpc' = [wpc EXCEPT ![b] = "ctx_cancelled"]
    /\ UNCHANGED nonRunVars
    /\ UNCHANGED <<cfg, pc, exit, numLoops, i, succ, cancelled, sid, acq, url,
                   users, nextSid>>

\* the watcher's allocCancel()
WatcherAllocCancel(b) ==
    /\ wpc[b] = "ctx_cancelled"
    /\ sess' = [sess EXCEPT ![b] = AllocCancel(@)]
    /\ wpc' = [wpc EXCEPT ![b] = "done"]
    /\ UNCHANGED nonRunVars
    /\ UNCHANGED <<cfg, pc, exit, numLoops, i, succ, cancelled, sid, acq, url,
                   users, nextSid>>

\* the caller of RunScraper cancels the run's context (the Stop button)
Cancel(b) ==
    /\ ~cancelled[b]
    /\ cancelled' = [cancelled EXCEPT ![b] = TRUE]
    /\ UNCHANGED nonRunVars
    /\ UNCHANGED <<cfg, pc, exit, numLoops, i, succ, sid, acq, sess, wpc, url,
                   users, nextSid>>

\* the site sends the browser to another page; the URL is read by the run
\* only at the head of a dispatch cycle, where the change is taken
SiteRedirect(b) ==
    /\ pc[b] = "mf_url"
    /\ ~sess[b].ctxDone
    /\ \E u \in PageURLs \ {url[b]} : url' = [url EXCEPT ![b] = u]
    /\ UNCHANGED nonRunVars
    /\ UNCHANGED <<cfg, pc, exit, numLoops, i, succ, cancelled, sid, acq, sess,
                   wpc, users, nextSid>>

\* URLs that contain two of the route patterns, one of them for instance in
\* the query string
MixedURLs == {u \in SUBSET (UNION PageURLs) : Cardinality(u) = 2}

\* the site sends the browser to a URL that contains two route patterns
SiteRedirectMixed(b) ==
    /\ pc[b] = "mf_url"
    /\ ~sess[b].ctxDone
    /\ \E u \in MixedURLs \ {url[b]} : url' = [url EXCEPT ![b] = u]
    /\ UNCHANGED nonRunVars
    /\ UNCHANGED <<cfg, pc, exit, numLoops, i, succ, cancelled, sid, acq, sess,
                   wpc, users, nextSid>>

\* steps the run's goroutine takes by itself
OwnStep(b) ==
    \/ Start(b)
    \/ GetBrowserContext(b)
    \/ DetermineLoopCount(b)
    \/ LoopTop(b)
    \/ MainFlowCheck(b)
    \/ IterationSucceeded(b)
    \/ ReleaseBrowserCancel(b)
    \/ ReleaseAllocCancel(b)

\* steps in which the goroutine waits for the browser: a chromedp.Run returns
\* when the page has answered, or with an error once the context is done
BrowserStep(b) ==
    \/ InitialNavigation(b)
    \/ LocationFails(b)
    \/ MonitorEventPage(b)
    \/ ExecuteBookingFlow(b)
    \/ ProcessTicketPage(b)
    \/ VerifyPage(b)
    \/ OrderPage(b)
    \/ CheckoutPage(b)
    \/ UnknownPage(b)
    \/ IterationFailed(b)

RunStep(b) == OwnStep(b) \/ BrowserStep(b)

\* what the scheduler guarantees of the run's goroutine: its own steps, and
\* the return of a browser call whose context is done
Goroutine(b) == OwnStep(b) \/ (sess[b].ctxDone /\ BrowserStep(b))

Watcher(b) == WatcherBrowserCancel(b) \/ WatcherAllocCancel(b)

BotStep(b) == RunStep(b) \/ Watcher(b) \/ Cancel(b) \/ SiteRedirect(b)

-----------------------------------------------------------------------------
(* A harness that calls the release function of getBrowserContext *)

Callers == {"c1", "c2"}

\* caller c starts a call of release: browserCancel()
CallReleaseBrowserCancel(c) ==
    /\ rel[c].pc = "idle"
    /\ rel[c].calls < MaxReleaseCalls
    /\ sess' = [sess EXCEPT !["botA"] = BrowserCancel(@)]
    /\ rel' = [rel EXCEPT ![c].pc = "alloc"]
    /\ UNCHANGED <<cfg, pc, exit, numLoops, i, succ, cancelled, sid, acq, wpc,
                   url, users, nextSid>>
    /\ UNCHANGED notRel

\* caller c finishes the call: allocCancel()
CallReleaseAllocCancel(c) ==
    /\ rel[c].pc = "alloc"
    /\ sess' = [sess EXCEPT !["botA"] = AllocCancel(@)]
    /\ rel' = [rel EXCEPT ![c] = [pc |-> "idle", calls |-> @.calls + 1]]
    /\ UNCHANGED <<cfg, pc, exit, numLoops, i, succ, cancelled, sid, acq, wpc,
                   url, users, nextSid>>
    /\ UNCHANGED notRel

-----------------------------------------------------------------------------
(* The seat-selection script of executeBookingFlow *)

\* String.prototype.trim
RECURSIVE Trim(_)
Trim(s) ==
    IF s = <<>> THEN s
    ELSE IF s[1] = " " THEN Trim(Tail(s))
    ELSE IF s[Len(s)] = " " THEN Trim(SubSeq(s, 1, Len(s) - 1))
    ELSE s

\* String.prototype.split(','): the pieces between the commas, empty ones too
RECURSIVE Split(_)
Split(s) ==
    IF \A k \in 1..Len(s) : s[k] # ","
    THEN <<s>>
    ELSE LET k == CHOOSE n \in 1..Len(s) :
                      s[n] = "," /\ \A m \in 1..(n - 1) : s[m] # ","
         IN <<SubSeq(s, 1, k - 1)>> \o Split(SubSeq(s, k + 1, Len(s)))

\* String.prototype.includes: pat occurs in text, case and all
Includes(text, pat) ==
    \E k \in 0..(Len(text) - Len(pat)) : SubSeq(text, k + 1, k + Len(pat)) = pat

\* filter.split(',').map(f => f.trim()).filter(f => f)
RECURSIVE TrimmedNonEmpty(_)
TrimmedNonEmpty(pieces) ==
    IF pieces = <<>> THEN <<>>
    ELSE (IF Trim(pieces[1]) = <<>> THEN <<>> ELSE <<Trim(pieces[1])>>)
         \o TrimmedNonEmpty(Tail(pieces))

NoSeatsAvailable == <<"n", "o", "_", "s", "e", "a", "t", "s", "_", "a", "v", "a", "i", "l", "a", "b", "l", "e">>
NoMatchingSeat == <<"n", "o", "_", "m", "a", "t", "c", "h", "i", "n", "g", "_", "s", "e", "a", "t">>

\* what filters[0] is converted to by includes() when filters is empty
UndefinedText == <<"u", "n", "d", "e", "f", "i", "n", "e", "d">>

\* index of the first link whose innerText includes text, 0 when there is none
FirstLink(labels, text) ==
    IF \E k \in 1..Len(labels) : Includes(labels[k], text)
    THEN CHOOSE k \in 1..Len(labels) :
            /\ Includes(labels[k], text)
            /\ \A m \in 1..(k - 1) : ~Includes(labels[m], text)
    ELSE 0

\* the links would be walked in the outer loop and the filters in the inner
FirstMatchLinkMajor(filters, labels) ==
    IF \E k \in 1..Len(labels), f \in 1..Len(filters) :
            Includes(labels[k], filters[f])
    THEN CHOOSE k \in 1..Len(labels) :
            /\ \E f \in 1..Len(filters) : Includes(labels[k], filters[f])
            /\ \A m \in 1..(k - 1), f \in 1..Len(filters) :
                    ~Includes(labels[m], filters[f])
    ELSE 0

\* "for (let filterText of filters) for (let a of links)": the link clicked,
\* 0 when no filter is included in any link
RECURSIVE FirstMatch(_, _)
FirstMatch(filters, labels) ==
    IF filters = <<>> THEN 0
    ELSE IF FirstLink(labels, filters[1]) # 0
    THEN FirstLink(labels, filters[1])
    ELSE FirstMatch(Tail(filters), labels)

\* the value of a clicked link: a.innerText.trim()
Clicked(labels, k) == [clicked |-> k, value |-> Trim(labels[k])]

\* the script evaluated by executeBookingFlow, with the filter pasted in
SeatScript(filter, labels) ==
    IF filter = <<>> \/ Trim(filter) = <<>>
    THEN IF Len(labels) > 0 THEN Clicked(labels, 1)
         ELSE [clicked |-> 0, value |-> NoSeatsAvailable]
    ELSE LET filters == TrimmedNonEmpty(Split(filter))
         IN IF Len(filters) > 1
            THEN IF FirstMatch(filters, labels) # 0
                 THEN Clicked(labels, FirstMatch(filters, labels))
                 ELSE [clicked |-> 0, value |-> NoMatchingSeat]
            ELSE LET singleFilter ==
                        IF filters = <<>> THEN UndefinedText ELSE filters[1]
                 IN IF FirstLink(labels, singleFilter) # 0
                    THEN Clicked(labels, FirstLink(labels, singleFilter))
                    ELSE [clicked |-> 0, value |-> NoMatchingSeat]

\* the script is run on the page's area links
SelectSeat ==
    /\ ~seatOut.done
    /\ LET r == SeatScript(seatIn.filter, seatIn.labels)
       IN seatOut' = [done |-> TRUE, clicked |-> r.clicked, value |-> r.value]
    /\ UNCHANGED seatIn
    /\ UNCHANGED notSeat

\* area labels and filters of the documented examples
LabelA1VIP == <<"A", "1", " ", "V", "I", "P">>
LabelA2Standard == <<"A", "2", " ", "S", "t", "a", "n", "d", "a", "r", "d">>
LabelA3VIP == <<"A", "3", " ", "V", "I", "P">>
ExampleLabels == <<LabelA1VIP, LabelA2Standard, LabelA3VIP>>
FilterVIP == <<"V", "I", "P">>
FilterZ9A2 == <<"Z", "9", ",", "A", "2">>

\* the texts of generated area links
LabelTexts == {<<"A">>, <<"a", "B">>, <<"B", "A">>, <<" ", "B">>}

FilterChars == {"A", "a", "B", ",", " "}

RECURSIVE SeqsUpTo(_, _)
SeqsUpTo(S, n) ==
    IF n = 0 THEN {<<>>}
    ELSE LET shorter == SeqsUpTo(S, n - 1)
         IN shorter \cup {Append(t, x) : t \in shorter, x \in S}

SeatInputs ==
    [filter : SeqsUpTo(FilterChars, MaxFilterLen),
     labels : SeqsUpTo(LabelTexts, MaxLabels)]
    \cup [filter : {FilterVIP, FilterZ9A2}, labels : {ExampleLabels}]

-----------------------------------------------------------------------------
(* The booking handlers: executeBookingFlow and processTicketPage *)

\* maxCaptchaRetries of executeBookingFlow and of processTicketPage
maxCaptchaRetries == 8

LowerChars == <<"a", "b", "c", "w", "x", "y", "z">>
UpperChars == <<"A", "B", "C", "W", "X", "Y", "Z">>

\* [a-zA-Z]
IsLetter(c) ==
    \E k \in 1..Len(LowerChars) : c = LowerChars[k] \/ c = UpperChars[k]

\* strings.ToLower
ToLower(s) ==
    [k \in 1..Len(s) |->
        IF \E n \in 1..Len(UpperChars) : s[k] = UpperChars[n]
        THEN LowerChars[CHOOSE n \in 1..Len(UpperChars) : s[k] = UpperChars[n]]
        ELSE s[k]]

\* strings.TrimSpace, on texts whose only white space is the blank
TrimSpace(s) == Trim(s)

\* strings.HasPrefix
HasPrefix(s, prefix) ==
    Len(s) >= Len(prefix) /\ SubSeq(s, 1, Len(prefix)) = prefix

\* isValidCaptcha: after TrimSpace, four characters matching ^[a-zA-Z]{4}$
isValidCaptcha(text) ==
    LET t == TrimSpace(text)
    IN Len(t) = 4 /\ \A k \in 1..Len(t) : IsLetter(t[k])

\* fastProcessCaptcha, from the OCR's ParsedText on: an error for a text that
\* is empty once trimmed, the trimmed lower-case text otherwise
CleanedText(parsedText) ==
    LET cleanedText == ToLower(TrimSpace(parsedText))
    IN [ok |-> cleanedText # <<>>, text |-> cleanedText]

\* what the OCR service answers for a captcha image
OcrTexts ==
    { <<"w", "x", "y", "z">>, <<"W", "x", "Y", "z">>, <<"a", "1", "!", "b">>,
      <<"a", "b", "c">>, <<"a", "b", "c", "w", "x">>,
      <<" ", "w", "x", "y", "z", " ">>, <<" ">>, <<>> }

\* the value the seat script returns from its catch block
ScriptError == <<"e", "r", "r", "o", "r", ":", " ", "x">>
ErrorPrefix == <<"e", "r", "r", "o", "r", ":">>

\* executeBookingFlow's checks of seatVal: TRUE when it goes on to the captcha
SeatAccepted(seatVal) ==
    /\ seatVal # NoMatchingSeat
    /\ ~HasPrefix(seatVal, ErrorPrefix)

\* a submission would count as successful as soon as no error was seen
SubmitOutcomeIgnoringURL(err, hasError, errorMessage, currentURL, newURL) ==
    IF err THEN "retry"
    ELSE IF hasError \/ errorMessage # "" THEN "retry"
    ELSE "success"

\* how both handlers classify a submission: the chromedp error first, then
\* the error text or dialog, then the URL before against the URL after
SubmitOutcome(err, hasError, errorMessage, currentURL, newURL) ==
    IF err THEN "retry"
    ELSE IF hasError \/ errorMessage # "" THEN "retry"
    ELSE IF newURL # currentURL THEN "success"
    ELSE "retry"

Handlers == {"executeBookingFlow", "processTicketPage"}

NoAttempt ==
    [err |-> FALSE, hasError |-> FALSE, errorMessage |-> "", currentURL |-> "",
     newURL |-> "", pageError |-> ""]

IdleFlow ==
    [handler |-> "none", filter |-> <<>>, labels |-> <<>>, preSaleCode |-> "",
     pc |-> "idle", ctxDone |-> FALSE, j |-> 0, seatDone |-> FALSE,
     clicked |-> 0, seatVal |-> <<>>, captchaText |-> <<>>, captchas |-> 0,
     submits |-> 0, reloads |-> 0, last |-> NoAttempt, result |-> "none",
     cause |-> "none", imageVisible |-> TRUE]

\* a return statement of the handler
FlowReturn(f, value, why) ==
    [f EXCEPT !.pc = "returned", !.result = value, !.cause = why]

\* fastReloadPage, then "continue": the for statement's j++
ReloadAndContinue(f) ==
    [f EXCEPT !.pc = "loop", !.j = @ + 1, !.reloads = @ + 1]

\* the browser context of the call is cancelled
FlowCancel ==
    /\ bf.pc \notin {"idle", "returned"}
    /\ ~bf.ctxDone
    /\ bf' = [bf EXCEPT !.ctxDone = TRUE]
    /\ UNCHANGED notBook

\* handlePreSaleCode(ctx, cfg.PreSaleCode), and executeBookingFlow's check of
\* its error
HandlePreSaleCode ==
    /\ bf.pc = "presale"
    /\ \E checkErr \in BOOLEAN, hasForm \in BOOLEAN, submitErr \in BOOLEAN :
          /\ bf.ctxDone => checkErr
          /\ bf' = IF checkErr
                   THEN FlowReturn(bf, "false", "presale_check")
                   ELSE IF ~hasForm
                   THEN [bf EXCEPT !.pc = "seat"]
                   ELSE IF PreSaleCodeMissing(hasForm, bf.preSaleCode)
                   THEN FlowReturn(bf, "false", "presale_missing")
                   ELSE IF submitErr
                   THEN FlowReturn(bf, "false", "presale_submit")
                   ELSE [bf EXCEPT !.pc = "seat"]
    /\ UNCHANGED notBook

\* the seat script is evaluated and seatVal is checked
SelectSeatArea ==
    /\ bf.pc = "seat"
    /\ \E runErr \in BOOLEAN, thrown \in BOOLEAN :
          /\ bf.ctxDone => runErr
          /\ LET r == IF thrown
                      THEN [clicked |-> 0, value |-> ScriptError]
                      ELSE SeatScript(bf.filter, bf.labels)
             IN bf' = IF runErr
                      THEN FlowReturn(bf, "false", "seat_error")
                      ELSE IF SeatAccepted(r.value)
                      THEN [bf EXCEPT !.pc = "loop", !.seatDone = TRUE,
                                      !.clicked = r.clicked,
                                      !.seatVal = r.value]
                      ELSE FlowReturn([bf EXCEPT !.seatDone = TRUE,
                                                 !.clicked = r.clicked,
                                                 !.seatVal = r.value],
                                      "false", "no_seat")
    /\ UNCHANGED notBook

\* "for j := 0; j < maxCaptchaRetries" and the select on ctx.Done(); the
\* variables declared in the loop body are new in every iteration
CaptchaLoopTop ==
    /\ bf.pc = "loop"
    /\ bf' = IF bf.j >= maxCaptchaRetries
             THEN FlowReturn(bf, "false", "retries")
             ELSE IF bf.ctxDone
             THEN FlowReturn(bf, "false", "cancelled")
             ELSE [bf EXCEPT !.pc = "captcha", !.captchaText = <<>>,
                             !.last = NoAttempt]
    /\ UNCHANGED notBook

\* fastProcessCaptcha: chromedp.WaitVisible on the captcha image, which
\* returns when the image is visible or the context is done; then the image
\* is read and sent to the OCR service
FastProcessCaptcha ==
    /\ bf.pc = "captcha"
    /\ bf.imageVisible \/ bf.ctxDone
    /\ \E failed \in BOOLEAN, parsedText \in OcrTexts :
          /\ bf.ctxDone => failed
          /\ LET c == CleanedText(parsedText)
                 f == [bf EXCEPT !.captchas = @ + 1]
             IN bf' = IF failed \/ ~c.ok
                      THEN ReloadAndContinue(f)
                      ELSE [f EXCEPT !.pc = "submit", !.captchaText = c.text]
    /\ UNCHANGED notBook

\* what a JavaScript dialog that opens during the attempt says; "none": no
\* dialog opens
DialogMessages == {"none", "", "sold out"}

\* the values the handler can read from errorMessage after the attempt: the
\* text chromedp.Evaluate found on the page, or, in executeBookingFlow, the
\* message the dialog listener assigned to the same variable, whichever
\* assignment came last
ErrorMessagesRead(handler, pageError, dialog) ==
    IF handler = "executeBookingFlow" /\ dialog # "none"
    THEN {pageError, dialog}
    ELSE {pageError}

\* the form is filled with captchaText and submitted; the page is then read.
\* hasError and errorMessage are set by the dialog listener of
\* executeBookingFlow while the handler's goroutine reads them, so an opened
\* dialog may or may not be seen.
SubmitCaptcha ==
    /\ bf.pc = "submit"
    /\ \E err \in BOOLEAN, clickDone \in BOOLEAN, dialog \in DialogMessages,
          hasError \in BOOLEAN, pageError \in {"", "wrong code"},
          newURL \in {"ticket", "order"} :
          /\ bf.ctxDone => err
          /\ ~err => clickDone
          /\ hasError => (dialog # "none" /\ bf.handler = "executeBookingFlow")
          /\ \E errorMessage \in
                   ErrorMessagesRead(bf.handler, pageError, dialog) :
                LET attempt == [err |-> err, hasError |-> hasError,
                                errorMessage |-> errorMessage,
                                currentURL |-> "ticket", newURL |-> newURL,
                                pageError |-> pageError]
                    f == [bf EXCEPT !.last = attempt,
                                    !.submits = IF clickDone THEN @ + 1 ELSE @]
                IN bf' = IF SubmitOutcome(err, hasError, errorMessage,
                                          "ticket", newURL) = "success"
                         THEN FlowReturn(f, "true", "url_changed")
                         ELSE ReloadAndContinue(f)
    /\ UNCHANGED notBook

\* the calls that are followed: both handlers, with and without a filter, a
\* matching area, an area at all, and a pre-sale code, on a page that shows
\* the captcha image; and each handler on a page whose captcha image never
\* becomes visible
FlowInputs ==
    { [IdleFlow EXCEPT !.handler = "executeBookingFlow", !.pc = "presale",
                       !.filter = in.filter, !.labels = in.labels,
                       !.preSaleCode = code] :
        in \in [filter : {<<>>, <<"A">>, <<"B", ",", "A">>},
                labels : {<<>>, <<<<"a", "B">>>>}],
        code \in {"", "code"} }
    \cup { [IdleFlow EXCEPT !.handler = "processTicketPage", !.pc = "loop",
                            !.imageVisible = visible] : visible \in BOOLEAN }
    \cup { [IdleFlow EXCEPT !.handler = "executeBookingFlow",
                            !.pc = "presale", !.imageVisible = FALSE] }

-----------------------------------------------------------------------------
(* The scheduled start: waitForScheduledTime and its callers runBot (CLI)  *)
(* and startBot (GUI)                                                      *)

\* the last instant of the modelled clock
MaxClock == 3

IdleSchedule ==
    [caller |-> "none", parses |-> TRUE, target |-> 0, pc |-> "idle",
     clock |-> 0, now |-> 0, deadline |-> 0, armed |-> FALSE, fired |-> FALSE,
     ctxDone |-> FALSE, seen |-> [timer |-> FALSE, done |-> FALSE],
     waited |-> FALSE, first |-> "none", result |-> "none", started |-> FALSE]

\* a return statement of waitForScheduledTime; the deferred timer.Stop()
SchedReturn(c, value) ==
    [c EXCEPT !.pc = "returned", !.result = value, !.armed = FALSE]

\* which of the two events happened first during the call (history)
FirstEvent(c, event) ==
    IF c.first = "none" /\ c.pc \notin {"returned", "ended"} THEN event
    ELSE c.first

\* time passes
Tick ==
    /\ sch.pc \notin {"idle", "ended"}
    /\ sch.clock < MaxClock
    /\ sch' = [sch EXCEPT !.clock = @ + 1]
    /\ UNCHANGED notSched

\* the runtime sends on timer.C, at the timer's deadline or later; a select
\* that is blocked on the two channels is decided by it
TimerFires ==
    /\ sch.armed
    /\ ~sch.fired
    /\ sch.clock >= sch.deadline
    /\ sch' = [sch EXCEPT !.fired = TRUE,
                          !.first = FirstEvent(sch, "timer"),
                          !.pc = IF @ = "blocked" THEN "woken_timer" ELSE @,
                          !.seen = IF sch.pc = "blocked"
                                   THEN [timer |-> TRUE, done |-> FALSE]
                                   ELSE @]
    /\ UNCHANGED notSched

\* Stop is clicked in the GUI: bot.cancel(); the CLI's context is
\* context.Background(), which is never done
StopClicked ==
    /\ sch.caller = "gui"
    /\ sch.pc \notin {"idle", "ended"}
    /\ ~sch.ctxDone
    /\ sch' = [sch EXCEPT !.ctxDone = TRUE,
                          !.first = FirstEvent(sch, "done"),
                          !.pc = IF @ = "blocked" THEN "woken_done" ELSE @,
                          !.seen = IF sch.pc = "blocked"
                                   THEN [timer |-> FALSE, done |-> TRUE]
                                   ELSE @]
    /\ UNCHANGED notSched

\* time.ParseInLocation of the start date and time
ParseSchedule ==
    /\ sch.pc = "parse"
    /\ sch' = IF sch.parses THEN [sch EXCEPT !.pc = "read_now"]
              ELSE SchedReturn(sch, "invalid datetime format")
    /\ UNCHANGED notSched

\* now := time.Now(); a scheduled time before now returns nil at once
ReadNow ==
    /\ sch.pc = "read_now"
    /\ sch' = IF sch.target < sch.clock
              THEN SchedReturn([sch EXCEPT !.now = sch.clock], "nil")
              ELSE [sch EXCEPT !.now = sch.clock, !.pc = "new_timer"]
    /\ UNCHANGED notSched

\* timer := time.NewTimer(scheduled.Sub(now))
NewTimer ==
    /\ sch.pc = "new_timer"
    /\ sch' = [sch EXCEPT !.armed = TRUE, !.waited = TRUE,
                          !.deadline = sch.clock + (sch.target - sch.now),
                          !.pc = "select"]
    /\ UNCHANGED notSched

\* the select statement is reached: it takes one of the cases that are
\* ready, whichever, and blocks when none is
Select ==
    /\ sch.pc = "select"
    /\ \E takeTimer \in BOOLEAN :
          LET ready == [timer |-> sch.fired, done |-> sch.ctxDone]
              c == [sch EXCEPT !.seen = ready]
          IN sch' = IF ~ready.timer /\ ~ready.done
                    THEN [sch EXCEPT !.pc = "blocked"]
                    ELSE IF ready.timer /\ (takeTimer \/ ~ready.done)
                    THEN SchedReturn(c, "nil")
                    ELSE SchedReturn(c, "schedule cancelled")
    /\ UNCHANGED notSched

\* the blocked select would resume as if the timer had fired
WakeIgnoringDone ==
    /\ sch.pc \in {"woken_timer", "woken_done"}
    /\ sch' = SchedReturn(sch, "nil")
    /\ UNCHANGED notSched

\* the blocked select resumes with the case that woke it
Wake ==
    /\ sch.pc \in {"woken_timer", "woken_done"}
    /\ sch' = IF sch.pc = "woken_timer"
              THEN SchedReturn(sch, "nil")
              ELSE SchedReturn(sch, "schedule cancelled")
    /\ UNCHANGED notSched

\* the caller: an error ends the bot; after nil startBot also looks at
\* ctx.Done() before it calls RunScraper, runBot calls it at once
StartAfterSchedule ==
    /\ sch.pc = "returned"
    /\ sch' = [sch EXCEPT !.pc = "ended",
                          !.started = /\ sch.result = "nil"
                                      /\ ~(sch.caller = "gui" /\ sch.ctxDone)]
    /\ UNCHANGED notSched

\* scheduled starts: from the CLI and the GUI, at every instant of the clock
\* for every scheduled time, with a date that parses and one that does not
ScheduleInputs ==
    { [IdleSchedule EXCEPT !.caller = who, !.parses = ok, !.target = t,
                           !.clock = at, !.pc = "parse"] :
        who \in {"cli", "gui"}, ok \in BOOLEAN, t \in 0..MaxClock,
        at \in 0..MaxClock }

-----------------------------------------------------------------------------
(* The persisted files: data/bookings.json written by safeSaveBooking and  *)
(* saveBooking under fileMutex, data/bots_config.json written by saveBots, *)
(* data/users.json written by saveUsers                                    *)

\* "for attempt := 1; attempt <= 3; attempt++" of safeSaveBooking
MaxSaveAttempts == 3

\* how many receipts each writer appends
MaxAppends == 2

Writers == {"w1", "w2"}

SaveFunctions == {"safeSaveBooking", "saveBooking"}

Files == {"bookings", "bots", "users"}

\* A file is absent, holds a whole JSON array ("array"), holds text that does
\* not parse ("corrupt"), or is being written in place, truncated and not yet
\* whole ("partial"); items are the receipts whose text is in it.
AbsentFile == [kind |-> "absent", items |-> <<>>]
ArrayFile(items) == [kind |-> "array", items |-> items]
CorruptFile(items) == [kind |-> "corrupt", items |-> items]
PartialFile == [kind |-> "partial", items |-> <<>>]

EmptyStore ==
    [bookings |-> AbsentFile, tmp |-> AbsentFile, bots |-> "whole",
     users |-> "whole", usersTmp |-> "absent", mutex |-> "none",
     gui |-> "idle", inPlace |-> {}, sawPartial |-> {}, initial |-> 0]

IdleWriter ==
    [pc |-> "idle", fn |-> "none", attempt |-> 0, bookings |-> <<>>,
     before |-> <<>>, receipt |-> <<>>, calls |-> 0, saved |-> 0,
     failed |-> 0]

\* os.ReadFile and json.Unmarshal as both save functions use them: no file
\* and an empty file give no bookings, text that does not parse is dropped
\* ("start fresh"), an array gives its records
ExistingBookings(file) ==
    IF file.kind = "array" THEN file.items ELSE <<>>

\* the loop would make one attempt more
AttemptFailedOnceMore(r) ==
    IF r.attempt < MaxSaveAttempts + 1
    THEN [r EXCEPT !.attempt = @ + 1, !.pc = "read"]
    ELSE [r EXCEPT !.pc = "unlock", !.failed = @ + 1]

\* a failed attempt of safeSaveBooking: Sleep and the next attempt, or the
\* end of the loop after the last one
AttemptFailed(r) ==
    IF r.attempt < MaxSaveAttempts
    THEN [r EXCEPT !.attempt = @ + 1, !.pc = "read"]
    ELSE [r EXCEPT !.pc = "unlock", !.failed = @ + 1]

\* a run has a receipt to store and calls one of the two save functions
BeginSave(w) ==
    /\ wr[w].pc = "idle"
    /\ wr[w].calls < MaxAppends
    /\ \E fn \in SaveFunctions :
          wr' = [wr EXCEPT ![w] = [@ EXCEPT !.pc = "lock", !.fn = fn,
                                            !.receipt = <<w, wr[w].calls + 1>>]]
    /\ UNCHANGED store
    /\ UNCHANGED notFile

\* the lock would be taken whoever holds it
LockWithoutWaiting(w) ==
    /\ wr[w].pc = "lock"
    /\ store' = [store EXCEPT !.mutex = w]
    /\ wr' = [wr EXCEPT ![w] = [@ EXCEPT !.pc = "read", !.attempt = 1,
                                         !.before = store.bookings.items]]
    /\ UNCHANGED notFile

\* fileMutex.Lock()
LockFileMutex(w) ==
    /\ wr[w].pc = "lock"
    /\ store.mutex = "none"
    /\ store' = [store EXCEPT !.mutex = w]
    /\ wr' = [wr EXCEPT ![w] = [@ EXCEPT !.pc = "read", !.attempt = 1,
                                         !.before = store.bookings.items]]
    /\ UNCHANGED notFile

\* os.MkdirAll, os.ReadFile and json.Unmarshal; an error ends the attempt of
\* safeSaveBooking and the call of saveBooking
ReadBookings(w) ==
    /\ wr[w].pc = "read"
    /\ \E ioErr \in BOOLEAN :
          wr' = [wr EXCEPT ![w] =
                    IF ~ioErr
                    THEN [@ EXCEPT !.pc = "write",
                                   !.bookings = ExistingBookings(store.bookings)]
                    ELSE IF @.fn = "safeSaveBooking" THEN AttemptFailed(@)
                    ELSE [@ EXCEPT !.pc = "unlock", !.failed = @ + 1]]
    /\ UNCHANGED store
    /\ UNCHANGED notFile

\* bookings = append(bookings, booking) and the write: safeSaveBooking writes
\* data/bookings.json.tmp; saveBooking calls os.WriteFile on the target, which
\* truncates it first
WriteBookings(w) ==
    /\ wr[w].pc = "write"
    /\ \E ioErr \in BOOLEAN :
          IF wr[w].fn = "safeSaveBooking"
          THEN /\ store' = [store EXCEPT !.tmp =
                               IF ioErr THEN PartialFile
                               ELSE ArrayFile(Append(wr[w].bookings,
                                                     wr[w].receipt))]
               /\ wr' = [wr EXCEPT ![w] = IF ioErr THEN AttemptFailed(@)
                                          ELSE [@ EXCEPT !.pc = "rename"]]
          ELSE /\ store' = [store EXCEPT !.bookings = PartialFile,
                                         !.inPlace = @ \cup {"bookings"}]
               /\ wr' = [wr EXCEPT ![w] = [@ EXCEPT !.pc = "write_end"]]
    /\ UNCHANGED notFile

\* saveBooking's os.WriteFile returns: the file is whole, or an error left it
\* as far as it was written
FinishWrite(w) ==
    /\ wr[w].pc = "write_end"
    /\ \E ioErr \in BOOLEAN :
          /\ store' = [store EXCEPT !.bookings =
                          IF ioErr THEN @
                          ELSE ArrayFile(Append(wr[w].bookings, wr[w].receipt))]
          /\ wr' = [wr EXCEPT ![w] =
                       IF ioErr
                       THEN [@ EXCEPT !.pc = "unlock", !.failed = @ + 1]
                       ELSE [@ EXCEPT !.pc = "unlock", !.saved = @ + 1]]
    /\ UNCHANGED notFile

\* safeSaveBooking's os.Rename of the temporary file over the target
RenameTemp(w) ==
    /\ wr[w].pc = "rename"
    /\ \E ioErr \in BOOLEAN :
          /\ store' = IF ioErr THEN store
                      ELSE [store EXCEPT !.bookings = store.tmp,
                                         !.tmp = AbsentFile]
          /\ wr' = [wr EXCEPT ![w] =
                       IF ioErr THEN AttemptFailed(@)
                       ELSE [@ EXCEPT !.pc = "unlock", !.saved = @ + 1]]
    /\ UNCHANGED notFile

\* the deferred fileMutex.Unlock()
UnlockFileMutex(w) ==
    /\ wr[w].pc = "unlock"
    /\ store' = [store EXCEPT !.mutex = "none"]
    /\ wr' = [wr EXCEPT ![w] = [@ EXCEPT !.pc = "idle", !.calls = @ + 1]]
    /\ UNCHANGED notFile

\* saveBots: os.WriteFile("data/bots_config.json") truncates the file ...
SaveBotsBegin ==
    /\ store.gui = "idle"
    /\ store' = [store EXCEPT !.gui = "saveBots", !.bots = "partial",
                              !.inPlace = @ \cup {"bots"}]
    /\ UNCHANGED wr
    /\ UNCHANGED notFile

\* ... and fills it
SaveBotsEnd ==
    /\ store.gui = "saveBots"
    /\ store' = [store EXCEPT !.gui = "idle", !.bots = "whole"]
    /\ UNCHANGED wr
    /\ UNCHANGED notFile

\* saveUsers: os.WriteFile("data/users.json.tmp") ...
SaveUsersWriteTemp ==
    /\ store.gui = "idle"
    /\ store' = [store EXCEPT !.gui = "saveUsers", !.usersTmp = "whole"]
    /\ UNCHANGED wr
    /\ UNCHANGED notFile

\* ... and os.Rename over data/users.json
SaveUsersRename ==
    /\ store.gui = "saveUsers"
    /\ store' = [store EXCEPT !.gui = "idle", !.users = store.usersTmp,
                              !.usersTmp = "absent"]
    /\ UNCHANGED wr
    /\ UNCHANGED notFile

\* a delete button of the bookings view: Layout holds bv.mu and calls
\* saveBookings, which locks bv.mu again and never gets it; no file is written
DeleteBookingsClicked ==
    /\ store.gui = "idle"
    /\ store' = [store EXCEPT !.gui = "blocked"]
    /\ UNCHANGED wr
    /\ UNCHANGED notFile

\* some reader opens file f and reads what is there at that moment
ReadPersisted(f) ==
    /\ LET kind == IF f = "bookings" THEN store.bookings.kind
                   ELSE IF f = "bots" THEN store.bots
                   ELSE store.users
       IN /\ kind = "partial"
          /\ f \notin store.sawPartial
          /\ store' = [store EXCEPT !.sawPartial = @ \cup {f}]
    /\ UNCHANGED wr
    /\ UNCHANGED notFile

\* what data/bookings.json holds when the writers start
InitialBookings ==
    { AbsentFile, ArrayFile(<<>>), ArrayFile(<<<<"w0", 1>>>>),
      CorruptFile(<<<<"w0", 1>>>>) }

-----------------------------------------------------------------------------
(* Native JavaScript dialogs: setupPopupHandler's listener, the listener that
   executeBookingFlow registers on every captcha attempt, and the goroutines
   they start to accept a dialog *)

\* how many dialogs the page raises, and how many listeners are followed:
\* chromedp keeps a listener until the session's context is done
MaxDialogs == 2
MaxListeners == 3

IdleDialogs ==
    [pc |-> "new", listeners |-> 0, attempts |-> 0, mainOp |-> FALSE,
     open |-> FALSE, dialogs |-> 0, pending |-> 0, accepting |-> 0,
     spawned |-> 0, accepted |-> 0]

\* getBrowserContext calls setupPopupHandler(browserCtx): one ListenTarget
SetupPopupHandler ==
    /\ dlg.pc = "new"
    /\ dlg' = [dlg EXCEPT !.pc = "ready", !.listeners = 1]
    /\ UNCHANGED notDialog

\* one captcha attempt of executeBookingFlow that got a captcha text: another
\* ListenTarget on the run's context, then the chromedp.Run of the submission
SubmitAttempt ==
    /\ dlg.pc = "ready"
    /\ ~dlg.mainOp
    /\ dlg.listeners < MaxListeners
    /\ dlg' = [dlg EXCEPT !.listeners = @ + 1, !.attempts = @ + 1,
                          !.mainOp = TRUE]
    /\ UNCHANGED notDialog

\* any other chromedp.Run of the dispatch loop or of a handler starts
BeginOperation ==
    /\ dlg.pc = "ready"
    /\ ~dlg.mainOp
    /\ dlg' = [dlg EXCEPT !.mainOp = TRUE]
    /\ UNCHANGED notDialog

\* the chromedp.Run of the dispatch loop returns
EndOperation ==
    /\ dlg.mainOp
    /\ dlg' = [dlg EXCEPT !.mainOp = FALSE]
    /\ UNCHANGED notDialog

\* page.EventJavascriptDialogOpening: every registered listener gets the event
\* and starts a goroutine for it
DialogOpening ==
    /\ dlg.pc = "ready"
    /\ ~dlg.open
    /\ dlg.dialogs < MaxDialogs
    /\ dlg' = [dlg EXCEPT !.open = TRUE, !.dialogs = @ + 1,
                          !.pending = @ + dlg.listeners,
                          !.spawned = @ + dlg.listeners]
    /\ UNCHANGED notDialog

\* a goroutine of a listener is scheduled and calls
\* chromedp.Run(ctx, page.HandleJavaScriptDialog(true))
HandleJavaScriptDialogBegin ==
    /\ dlg.pending > 0
    /\ dlg' = [dlg EXCEPT !.pending = @ - 1, !.accepting = @ + 1]
    /\ UNCHANGED notDialog

\* that call returns: the open dialog is accepted, or there was none left and
\* the error is discarded
HandleJavaScriptDialogEnd ==
    /\ dlg.accepting > 0
    /\ dlg' = [dlg EXCEPT !.accepting = @ - 1, !.open = FALSE,
                          !.accepted = IF dlg.open THEN @ + 1 ELSE @]
    /\ UNCHANGED notDialog

\* the calls of chromedp.Run that are driving the browser now
InFlight == (IF dlg.mainOp THEN 1 ELSE 0) + dlg.accepting

-----------------------------------------------------------------------------
(* One bot of the GUI: the Start/Stop button of layoutHeader, startBot and
   the goroutine startBot starts *)

\* how many times the bot is started
MaxStarts == 4

\* runs[r]: the goroutine of the r-th start; done: the runs whose context
\* has been cancelled; cancel: the run whose cancel function bot.cancel holds
IdleBot ==
    [IsRunning |-> FALSE, cancel |-> 0, started |-> 0, done |-> {},
     runs |-> [r \in 1..MaxStarts |-> "none"]]

\* runBtn clicked while IsRunning is false: g.startBot(bot) makes a context,
\* stores its cancel function, sets IsRunning and starts the goroutine
StartBot ==
    /\ ~gbot.IsRunning
    /\ gbot.started < MaxStarts
    /\ LET r == gbot.started + 1
       IN gbot' = [gbot EXCEPT !.started = r, !.cancel = r,
                               !.IsRunning = TRUE, !.runs[r] = "active"]
    /\ UNCHANGED notBot

\* runBtn clicked while IsRunning is true: bot.cancel() and IsRunning = false
StopBot ==
    /\ gbot.IsRunning
    /\ gbot' = [gbot EXCEPT !.done = @ \cup {gbot.cancel},
                            !.IsRunning = FALSE]
    /\ UNCHANGED notBot

\* the goroutine of a start returns (no user, schedule error, cancelled, or
\* RunScraper returned) and its deferred function sets IsRunning = false
RunGoroutineExits(r) ==
    /\ gbot.runs[r] = "active"
    /\ gbot' = [gbot EXCEPT !.runs[r] = "exited", !.IsRunning = FALSE]
    /\ UNCHANGED notBot

\* the runs whose goroutine has not returned and that were not told to stop
ActiveRuns ==
    {r \in 1..MaxStarts : gbot.runs[r] = "active" /\ r \notin gbot.done}

-----------------------------------------------------------------------------
(* The mutex of a view of the GUI.  gui.go holds two versions of the GUI: the
   bookings view and the users view of the first lock their mutex for the
   whole of Layout, the users view of the second only around its own data *)

Views == {"bookings", "usersOld", "users"}

Clicks == {"none", "refresh", "deleteAll", "delete"}

\* mu: which goroutine holds the view's sync.Mutex; pc: where the UI goroutine
\* is in Layout; click: the button the frame found clicked
IdleViews == [v \in Views |-> [mu |-> "none", pc |-> "idle", click |-> "none"]]

\* BookingsView.Layout and the first UsersView.Layout: mu.Lock() and a
\* deferred Unlock, then the clicked button's loadX or saveX, else the frame
LayoutLocked(v, click) ==
    /\ v \in {"bookings", "usersOld"}
    /\ view[v].pc = "idle"
    /\ view[v].mu = "none"
    /\ view' = [view EXCEPT ![v] =
                   [mu |-> "ui", click |-> click,
                    pc |-> IF click = "none" THEN "render" ELSE "callee"]]
    /\ UNCHANGED notView

\* the second UsersView.Layout: refresh calls loadUsers without the lock;
\* delete-all and delete lock, change the list, unlock and call saveUsers;
\* without a click the rest of the frame runs under the lock
LayoutUnlocked(v, click) ==
    /\ v = "users"
    /\ view[v].pc = "idle"
    /\ click = "refresh" \/ view[v].mu = "none"
    /\ view' = [view EXCEPT ![v] =
                   [mu |-> IF click = "none" THEN "ui" ELSE view[v].mu,
                    click |-> click,
                    pc |-> IF click = "none" THEN "render" ELSE "callee"]]
    /\ UNCHANGED notView

\* mu.Lock() at the head of loadBookings, saveBookings, loadUsers, saveUsers;
\* sync.Mutex is not reentrant
CalleeLock(v) ==
    /\ view[v].pc = "callee"
    /\ view[v].mu = "none"
    /\ view' = [view EXCEPT ![v].mu = "ui", ![v].pc = "io"]
    /\ UNCHANGED notView

\* the deferred Unlock of the callee; the second UsersView.Layout then
\* returns, the others go on with the frame
CalleeReturn(v) ==
    /\ view[v].pc = "io"
    /\ view' = [view EXCEPT ![v].mu = "none",
                            ![v].pc = IF v = "users" THEN "idle" ELSE "render"]
    /\ UNCHANGED notView

\* Layout returns and its deferred Unlock runs
LayoutReturn(v) ==
    /\ view[v].pc = "render"
    /\ view' = [view EXCEPT ![v].mu = "none", ![v].pc = "idle"]
    /\ UNCHANGED notView

\* the goroutine of the validate button of the second users view: uv.mu.Lock()
ValidateLock ==
    /\ view["users"].mu = "none"
    /\ view' = [view EXCEPT !["users"].mu = "validate"]
    /\ UNCHANGED notView

\* ... and uv.mu.Unlock()
ValidateUnlock ==
    /\ view["users"].mu = "validate"
    /\ view' = [view EXCEPT !["users"].mu = "none"]
    /\ UNCHANGED notView

-----------------------------------------------------------------------------
(* The package-level logger of services, shared by every run of the process:
   fileLogger, logFile, logMutex and guiLogWriter *)

\* fileLogger, logFile: the open-file handle behind them, 0 for nil; closed:
\* the handles Close was called on; delivered: <<bot whose run logged, bot
\* whose BotLogWriter got the line>>; run[b].deferred: the handle the deferred
\* logFile.Close() of b's RunScraper will close
IdleLogger ==
    [fileLogger |-> 0, logFile |-> 0, closed |-> {}, nextFile |-> 1,
     logMutex |-> "none", guiLogWriter |-> "none", delivered |-> {},
     closedWrite |-> FALSE, closedInUse |-> FALSE,
     run |-> [b \in Bots |-> [pc |-> "idle", deferred |-> 0]]]

\* startBot starts the goroutine of bot b
StartBotGoroutine(b) ==
    /\ lg.run[b].pc = "idle"
    /\ lg' = [lg EXCEPT !.run[b].pc = "set_writer"]
    /\ UNCHANGED notLog

\* services.SetGUIWriter(&BotLogWriter{botName: bot.config.Name})
SetGUIWriter(b) ==
    /\ lg.run[b].pc = "set_writer"
    /\ lg' = [lg EXCEPT !.guiLogWriter = b, !.run[b].pc = "init1"]
    /\ UNCHANGED notLog

\* initFileLogger, called by RunScraper and again by getBrowserContext:
\* logMutex.Lock() and logFile.Close() ...
InitFileLoggerClose(b) ==
    /\ lg.run[b].pc \in {"init1", "init2"}
    /\ lg.logMutex = "none"
    /\ lg' = [lg EXCEPT !.logMutex = b,
                        !.closed = IF lg.logFile # 0
                                   THEN @ \cup {lg.logFile} ELSE @,
                        !.run[b].pc = IF @ = "init1" THEN "open1" ELSE "open2"]
    /\ UNCHANGED notLog

\* ... os.OpenFile, log.New and the deferred logMutex.Unlock()
InitFileLoggerOpen(b) ==
    /\ lg.run[b].pc \in {"open1", "open2"}
    /\ lg' = [lg EXCEPT !.logFile = lg.nextFile,
                        !.fileLogger = lg.nextFile,
                        !.nextFile = @ + 1,
                        !.logMutex = "none",
                        !.run[b].pc = IF @ = "open1" THEN "defer"
                                      ELSE "running"]
    /\ UNCHANGED notLog

\* RunScraper's "defer logFile.Close()": the receiver is evaluated now
DeferClose(b) ==
    /\ lg.run[b].pc = "defer"
    /\ lg' = [lg EXCEPT !.run[b].deferred = lg.logFile,
                        !.run[b].pc = "start_log"]
    /\ UNCHANGED notLog

\* what one call of LogToFile by the run of bot b does to the logger: the
\* line goes through fileLogger (read without logMutex) and to guiLogWriter
Logged(l, b) ==
    [l EXCEPT !.closedWrite = @ \/ l.fileLogger \in l.closed,
              !.delivered = IF l.guiLogWriter # "none"
                            THEN @ \cup {<<b, l.guiLogWriter>>} ELSE @]

\* LogToFile called by the run of bot b: RunScraper's first line, then any
\* line of the run
LogToFile(b) ==
    /\ lg.run[b].pc \in {"start_log", "running"}
    /\ lg' = [Logged(lg, b) EXCEPT
                 !.run[b].pc = IF @ = "start_log" THEN "init2" ELSE @]
    /\ UNCHANGED notLog

\* RunScraper returns: the release function logs, then the deferred
\* logFile.Close() closes the handle evaluated at the defer statement
RunScraperReturns(b) ==
    /\ lg.run[b].pc = "running"
    /\ LET l == Logged(lg, b)
           f == lg.run[b].deferred
       IN lg' = [l EXCEPT
                    !.closed = @ \cup {f},
                    !.closedInUse =
                        @ \/ (/\ f \notin l.closed
                              /\ f = l.fileLogger
                              /\ \E o \in Bots \ {b} :
                                    l.run[o].pc \in {"start_log", "running"}),
                    !.run[b].pc = "done"]
    /\ UNCHANGED notLog

-----------------------------------------------------------------------------
(* Specifications *)

SessionIds == 1..Cardinality(Bots)

InitRunWith(configs) ==
    /\ cfg \in configs
    /\ pc = [b \in Bots |-> "idle"]
    /\ exit = [b \in Bots |-> "none"]
    /\ numLoops = [b \in Bots |-> 1]
    /\ i = [b \in Bots |-> 1]
    /\ succ = [b \in Bots |-> 0]
    /\ cancelled = [b \in Bots |-> FALSE]
    /\ sid = [b \in Bots |-> 0]
    /\ acq = [b \in Bots |-> 0]
    /\ sess = [b \in Bots |-> FreshSession]
    /\ wpc = [b \in Bots |-> "none"]
    /\ url = [b \in Bots |-> RootURL]
    /\ users = [s \in SessionIds |-> {}]
    /\ nextSid = 1
    /\ presaleErr = [b \in Bots |-> FALSE]

InitRelIdle == rel = [c \in Callers |-> [pc |-> "idle", calls |-> 0]]

InitSeatIdle ==
    /\ seatIn = [filter |-> <<>>, labels |-> <<>>]
    /\ seatOut = [done |-> FALSE, clicked |-> 0, value |-> <<>>]

\* no handler call is being followed
InitBookIdle == bf = IdleFlow

\* the harnesses other than the one a specification is about stand still
\* no scheduled start is being followed
InitSchedIdle == sch = IdleSchedule

\* no receipt is being written and no file exists yet
InitFileIdle ==
    /\ store = EmptyStore
    /\ wr = [w \in Writers |-> IdleWriter]

\* no session's dialogs, no logger, no GUI bot and no view is being followed
InitDialogIdle == dlg = IdleDialogs

InitLogIdle == lg = IdleLogger

InitBotIdle == gbot = IdleBot

InitViewIdle == view = IdleViews

InitGuiIdle == InitDialogIdle /\ InitLogIdle /\ InitBotIdle /\ InitViewIdle

InitHarnessIdle ==
    /\ InitRelIdle /\ InitSeatIdle /\ InitBookIdle /\ InitSchedIdle
    /\ InitFileIdle /\ InitGuiIdle

\* one run, botA's, over every configuration
OneRun == {c \in [Bots -> Configs] : c["botB"] = DefaultConfig}

Init == InitRunWith(OneRun) /\ InitHarnessIdle

Next == \E b \in {"botA"} : BotStep(b)

Spec == Init /\ [][Next]_vars

\* two concurrent runs
InitBots == InitRunWith([Bots -> SmallConfigs]) /\ InitHarnessIdle

NextBots == \E b \in Bots : BotStep(b)

SpecBots == InitBots /\ [][NextBots]_vars

\* one run whose goroutines are scheduled fairly: the run's goroutine and the
\* watcher goroutine each take their next step eventually; a page that never
\* answers keeps a browser call waiting for as long as the context is live
FairSpec ==
    /\ Init
    /\ [][Next]_vars
    /\ WF_vars(Goroutine("botA"))
    /\ WF_vars(Watcher("botA"))

\* one run of which only the watcher goroutine is known to be scheduled: the
\* run's own goroutine may stay where it is for as long as it likes
WatcherSpec ==
    /\ Init
    /\ [][Next]_vars
    /\ WF_vars(Watcher("botA"))

\* one run on a site whose URLs may contain several route patterns
RouteRuns == {c \in [Bots -> SiteConfigs \cup {DefaultConfig}] :
                 c["botA"] \in SiteConfigs /\ c["botB"] = DefaultConfig}

InitRoute == InitRunWith(RouteRuns) /\ InitHarnessIdle

NextRoute ==
    \/ \E b \in {"botA"} : BotStep(b)
    \/ \E b \in {"botA"} : SiteRedirectMixed(b)

SpecRoute == InitRoute /\ [][NextRoute]_vars

\* getBrowserContext was called for botA by the harness; its callers and the
\* watcher then run in any order
InitRelease ==
    /\ cfg = [b \in Bots |-> DefaultConfig]
    /\ pc = [b \in Bots |-> "idle"]
    /\ exit = [b \in Bots |-> "none"]
    /\ numLoops = [b \in Bots |-> 1]
    /\ i = [b \in Bots |-> 1]
    /\ succ = [b \in Bots |-> 0]
    /\ cancelled = [b \in Bots |-> FALSE]
    /\ sid = [b \in Bots |-> IF b = "botA" THEN 1 ELSE 0]
    /\ acq = [b \in Bots |-> IF b = "botA" THEN 1 ELSE 0]
    /\ sess = [b \in Bots |-> FreshSession]
    /\ wpc = [b \in Bots |-> IF b = "botA" THEN "waiting" ELSE "none"]
    /\ url = [b \in Bots |-> RootURL]
    /\ users = [s \in SessionIds |-> {}]
    /\ nextSid = 2
    /\ presaleErr = [b \in Bots |-> FALSE]
    /\ InitRelIdle
    /\ InitSeatIdle
    /\ InitBookIdle
    /\ InitSchedIdle
    /\ InitGuiIdle
    /\ InitFileIdle

NextRelease ==
    \/ \E c \in Callers : CallReleaseBrowserCancel(c)
    \/ \E c \in Callers : CallReleaseAllocCancel(c)
    \/ WatcherBrowserCancel("botA")
    \/ WatcherAllocCancel("botA")
    \/ Cancel("botA")

SpecRelease == InitRelease /\ [][NextRelease]_vars

\* the seat-selection script on every input
InitSeat ==
    /\ InitRunWith({[b \in Bots |-> DefaultConfig]})
    /\ InitRelIdle
    /\ InitBookIdle
    /\ InitSchedIdle
    /\ InitGuiIdle
    /\ InitFileIdle
    /\ seatIn \in SeatInputs
    /\ seatOut = [done |-> FALSE, clicked |-> 0, value |-> <<>>]

NextSeat == SelectSeat

SpecSeat == InitSeat /\ [][NextSeat]_vars

\* one call of a booking handler, on every followed input
InitBooking ==
    /\ InitRunWith({[b \in Bots |-> DefaultConfig]})
    /\ InitRelIdle
    /\ InitSeatIdle
    /\ InitSchedIdle
    /\ InitGuiIdle
    /\ InitFileIdle
    /\ bf \in FlowInputs

NextBooking ==
    \/ HandlePreSaleCode
    \/ SelectSeatArea
    \/ CaptchaLoopTop
    \/ FastProcessCaptcha
    \/ SubmitCaptcha
    \/ FlowCancel

SpecBooking == InitBooking /\ [][NextBooking]_vars

\* the steps of the handler's goroutine; a step that waits for the page is
\* enabled when the page has what the step waits for, or the context is done
HandlerStep ==
    \/ HandlePreSaleCode
    \/ SelectSeatArea
    \/ CaptchaLoopTop
    \/ FastProcessCaptcha
    \/ SubmitCaptcha

\* one handler call whose goroutine is scheduled fairly
FairBooking == SpecBooking /\ WF_vars(HandlerStep)

\* one scheduled start
InitSchedule ==
    /\ InitRunWith({[b \in Bots |-> DefaultConfig]})
    /\ InitRelIdle
    /\ InitSeatIdle
    /\ InitBookIdle
    /\ InitFileIdle
    /\ sch \in ScheduleInputs
    /\ InitGuiIdle

NextSchedule ==
    \/ ParseSchedule
    \/ ReadNow
    \/ NewTimer
    \/ Select
    \/ Wake
    \/ StartAfterSchedule
    \/ Tick
    \/ TimerFires
    \/ StopClicked

SpecSchedule == InitSchedule /\ [][NextSchedule]_vars

\* two writers of receipts and readers of the file
InitPersist ==
    /\ InitRunWith({[b \in Bots |-> DefaultConfig]})
    /\ InitRelIdle
    /\ InitSeatIdle
    /\ InitBookIdle
    /\ InitSchedIdle
    /\ InitGuiIdle
    /\ \E file \in InitialBookings :
          store = [EmptyStore EXCEPT !.bookings = file,
                                     !.initial =
                                         Len(ExistingBookings(file))]
    /\ wr = [w \in Writers |-> IdleWriter]

NextPersist ==
    \/ \E w \in Writers : BeginSave(w)
    \/ \E w \in Writers : LockFileMutex(w)
    \/ \E w \in Writers : ReadBookings(w)
    \/ \E w \in Writers : WriteBookings(w)
    \/ \E w \in Writers : FinishWrite(w)
    \/ \E w \in Writers : RenameTemp(w)
    \/ \E w \in Writers : UnlockFileMutex(w)
    \/ \E f \in Files : ReadPersisted(f)

SpecPersist == InitPersist /\ [][NextPersist]_vars

\* the steps of one call of a save function, from fileMutex.Lock() to return
SaveStep(w) ==
    \/ LockFileMutex(w)
    \/ ReadBookings(w)
    \/ WriteBookings(w)
    \/ FinishWrite(w)
    \/ RenameTemp(w)
    \/ UnlockFileMutex(w)

\* every goroutine inside a save function is scheduled; file operations and
\* the one-second sleeps return
FairPersist == SpecPersist /\ \A w \in Writers : WF_vars(SaveStep(w))

\* every writer of a persisted file: one run storing receipts and the GUI
\* saving bots and users, with readers of the files
NextFiles ==
    \/ BeginSave("w1")
    \/ LockFileMutex("w1")
    \/ ReadBookings("w1")
    \/ WriteBookings("w1")
    \/ FinishWrite("w1")
    \/ RenameTemp("w1")
    \/ UnlockFileMutex("w1")
    \/ SaveBotsBegin
    \/ SaveBotsEnd
    \/ SaveUsersWriteTemp
    \/ SaveUsersRename
    \/ DeleteBookingsClicked
    \/ \E f \in Files : ReadPersisted(f)

SpecFiles == InitPersist /\ [][NextFiles]_vars

\* what every specification of the GUI and of the shared logger starts from
InitGui ==
    /\ InitRunWith({[b \in Bots |-> DefaultConfig]})
    /\ InitRelIdle
    /\ InitSeatIdle
    /\ InitBookIdle
    /\ InitSchedIdle
    /\ InitFileIdle
    /\ InitGuiIdle

\* one session, its listeners and the dialogs of its page
NextDialog ==
    \/ SetupPopupHandler
    \/ SubmitAttempt
    \/ BeginOperation
    \/ EndOperation
    \/ DialogOpening
    \/ HandleJavaScriptDialogBegin
    \/ HandleJavaScriptDialogEnd

SpecDialog == InitGui /\ [][NextDialog]_vars

\* two bots started from the GUI, logging through the shared logger
NextLog ==
    \/ \E b \in Bots : StartBotGoroutine(b)
    \/ \E b \in Bots : SetGUIWriter(b)
    \/ \E b \in Bots : InitFileLoggerClose(b)
    \/ \E b \in Bots : InitFileLoggerOpen(b)
    \/ \E b \in Bots : DeferClose(b)
    \/ \E b \in Bots : LogToFile(b)
    \/ \E b \in Bots : RunScraperReturns(b)

SpecLog == InitGui /\ [][NextLog]_vars

\* the Start/Stop button of one bot and the goroutines of its starts
NextButton ==
    \/ StartBot
    \/ StopBot
    \/ \E r \in 1..MaxStarts : RunGoroutineExits(r)

SpecButton == InitGui /\ [][NextButton]_vars

\* frames of the three views and the validate goroutine
NextViews ==
    \/ \E v \in Views, click \in Clicks : LayoutLocked(v, click)
    \/ \E v \in Views, click \in Clicks : LayoutUnlocked(v, click)
    \/ \E v \in Views : CalleeLock(v)
    \/ \E v \in Views : CalleeReturn(v)
    \/ \E v \in Views : LayoutReturn(v)
    \/ ValidateLock
    \/ ValidateUnlock

SpecViews == InitGui /\ [][NextViews]_vars

-----------------------------------------------------------------------------
(* Properties of RunScraper *)

Quantity(b) == Atoi(cfg[b].PerOrderTicket)
MaxTickets(b) == Atoi(cfg[b].MaxTickets)

\* the run of b is past "Determine Loop Count" and did not return from it
Planned(b) ==
    /\ pc[b] \notin {"idle", "rs_start", "rs_plan"}
    /\ exit[b] \notin {"invalid_quantity", "invalid_max"}

\* C1: in loop mode, for quantity q > 0 and max-tickets m > 0, the run plans
\* exactly ceil(m/q) iterations, and when it logs completion exactly that
\* many iterations have succeeded; never more succeed.
C1_LoopRunsCeilIterations ==
    \A b \in Bots :
        (/\ cfg[b].Loop
         /\ Quantity(b).ok /\ Quantity(b).val > 0
         /\ MaxTickets(b).ok /\ MaxTickets(b).val > 0)
        => LET planned == CeilDiv(MaxTickets(b).val, Quantity(b).val)
           IN /\ Planned(b) => numLoops[b] = planned
              /\ succ[b] <= planned
              /\ exit[b] = "complete" => succ[b] = planned

\* C2: a run with Loop = false performs exactly one iteration whatever the
\* quantity and max-tickets fields hold: when it has returned, and was neither
\* stopped nor unable to load its first page, one iteration was performed.
C2_NoLoopRunsOneIteration ==
    \A b \in Bots :
        (/\ pc[b] = "returned"
         /\ ~cfg[b].Loop
         /\ exit[b] \notin {"stopped", "nav_failed"})
        => succ[b] = 1

\* C3: the iteration counter changes only by +1 and only right after
\* runMainFlow returned true; after a false return the counter is kept and the
\* loop head is reached again; the dispatch loop of iteration N is entered
\* only when N-1 iterations have succeeded.
C3_CounterAdvancesOnlyOnSuccess ==
    [][\A b \in Bots :
          /\ i'[b] # i[b] => (i'[b] = i[b] + 1 /\ pc[b] = "rs_ok")
          /\ (pc[b] = "rs_fail" /\ pc'[b] # pc[b])
                => (i'[b] = i[b] /\ pc'[b] = "rs_loop")
          /\ (pc[b] = "rs_loop" /\ pc'[b] = "mf_top") => succ[b] = i[b] - 1
      ]_vars

\* a second iteration failed after the first one succeeded
C3_Witness ==
    /\ pc["botA"] = "rs_fail"
    /\ i["botA"] = 2
    /\ succ["botA"] = 1

\* C4: once the run's cancellation token has fired at a point of the dispatch
\* loop, the dispatch loop does not return success for the iteration in
\* flight.
C4_CancelledDispatchNeverSucceeds ==
    [][\A b \in Bots :
          (cancelled[b] /\ pc[b] \in {"mf_top", "mf_url"})
             => (pc'[b] # "rs_ok" /\ succ'[b] = succ[b])
      ]_vars

C6_WatcherTearsDownSession ==
    \A b \in Bots :
        (cancelled[b] /\ wpc[b] # "none") ~> TornDown(sess[b])

\* the watcher tore the session down while the run sits in a dispatch cycle
C6_Witness ==
    /\ wpc["botA"] = "done"
    /\ TornDown(sess["botA"])
    /\ pc["botA"] = "mf_url"

\* C8: when RunScraper has returned, by whichever return statement, the
\* session it acquired is torn down.
C8_SessionReleasedOnReturn ==
    \A b \in Bots :
        pc[b] = "returned" => (acq[b] = 1 /\ TornDown(sess[b]))

\* a run that was never cancelled returned from the configuration check
C8_Witness ==
    /\ pc["botA"] = "returned"
    /\ exit["botA"] = "invalid_max"
    /\ ~cancelled["botA"]
    /\ TornDown(sess["botA"])

\* C9: a run acquires one session, before its first browser operation, and
\* no more; no session is driven by two runs and no two runs hold the same
\* session.
C9_OneSessionPerRunNeverShared ==
    /\ \A b \in Bots :
          /\ acq[b] <= 1
          /\ pc[b] \notin {"idle", "rs_start"} => (acq[b] = 1 /\ sid[b] # 0)
    /\ \A s \in SessionIds : Cardinality(users[s]) <= 1
    /\ \A a, b \in Bots : (a # b /\ sid[a] # 0) => sid[a] # sid[b]

\* two runs drive their sessions at the same time, one in its second iteration
C9_Witness ==
    /\ pc["botA"] = "mf_url" /\ i["botA"] = 2
    /\ pc["botB"] = "mf_url"
    /\ users[sid["botA"]] = {"botA"}
    /\ users[sid["botB"]] = {"botB"}

-----------------------------------------------------------------------------
(* Properties of the release function *)

\* the state one call of release leaves the session in
ReleasedOnce == AllocCancel(BrowserCancel(FreshSession))

-----------------------------------------------------------------------------
(* Properties of seat selection *)

\* the alternatives of a filter: its comma-separated pieces, without the
\* white space around them, the empty ones left out
Alternatives(filter) ==
    LET pieces == Split(filter)
        kept   == {k \in 1..Len(pieces) : Trim(pieces[k]) # <<>>}
        nth(n) == CHOOSE k \in kept : Cardinality({m \in kept : m <= k}) = n
    IN [n \in 1..Cardinality(kept) |-> Trim(pieces[nth(n)])]

\* text is a substring of label, compared character by character
Substring(text, label) ==
    \E from \in 1..Len(label), to \in 0..Len(label) :
        /\ to - from + 1 = Len(text)
        /\ \A k \in 1..Len(text) : label[from + k - 1] = text[k]

\* C10: with a non-empty filter, the alternatives are tried first to last;
\* for the first alternative that is a case-sensitive substring of some area
\* label, the first such area in page order is clicked and its label is the
\* value captured, even when a later alternative matches an earlier area.
\* With labels [A1 VIP, A2 Standard, A3 VIP], filter VIP selects A1 VIP and
\* filter Z9,A2 selects A2 Standard.
C10_FirstAlternativeFirstArea ==
    LET alts   == Alternatives(seatIn.filter)
        labels == seatIn.labels
        hit(n) == \E k \in 1..Len(labels) : Substring(alts[n], labels[k])
    IN (seatOut.done /\ Trim(seatIn.filter) # <<>>) =>
          /\ \A n \in 1..Len(alts) :
                (hit(n) /\ \A m \in 1..(n - 1) : ~hit(m)) =>
                   \E k \in 1..Len(labels) :
                      /\ Substring(alts[n], labels[k])
                      /\ \A j \in 1..(k - 1) : ~Substring(alts[n], labels[j])
                      /\ seatOut.clicked = k
                      /\ seatOut.value = Trim(labels[k])
          /\ (seatIn.labels = ExampleLabels /\ seatIn.filter = FilterVIP)
                => seatOut.value = LabelA1VIP
          /\ (seatIn.labels = ExampleLabels /\ seatIn.filter = FilterZ9A2)
                => seatOut.value = LabelA2Standard

\* the first alternative matches the second area only, the second alternative
\* matches the first area: the second area is clicked
C10_Witness ==
    /\ seatOut.done
    /\ seatIn.filter = <<"B", ",", "A">>
    /\ seatIn.labels = <<<<"A">>, <<"a", "B">>>>
    /\ seatOut.clicked = 2


-----------------------------------------------------------------------------
(* Properties of the booking handlers *)

\* C11: whenever the seat script of executeBookingFlow clicked no area (no
\* label contains an alternative of the filter, or there is no filter and no
\* area), the handler has returned false, and it has neither asked for a
\* captcha nor submitted the form.
C11_NoAreaEndsIterationFailed ==
    (bf.handler = "executeBookingFlow" /\ bf.seatDone /\ bf.clicked = 0)
        => /\ bf.pc = "returned"
           /\ bf.result = "false"
           /\ bf.captchas = 0
           /\ bf.submits = 0

\* C12: a captcha text the handler goes on to type into the form and submit
\* is valid: exactly four characters, all alphabetic.
C12_OnlyValidCaptchaSubmitted ==
    bf.pc = "submit" => isValidCaptcha(bf.captchaText)

\* C13: a handler that returned true did so for a submission after which the
\* URL differs from the URL before it; a submission with the same URL before
\* and after is never the one that makes the handler return true.
C13_SameURLNeverSuccess ==
    bf.result = "true"
        => /\ bf.pc = "returned"
           /\ ~bf.last.err
           /\ bf.last.newURL # bf.last.currentURL

\* a submission without error text or dialog left the URL as it was, and the
\* handler went on to its next attempt
C13_Witness ==
    /\ bf.pc = "loop"
    /\ bf.submits = 1
    /\ ~bf.last.err
    /\ ~bf.last.hasError
    /\ bf.last.errorMessage = ""
    /\ bf.last.newURL = bf.last.currentURL
    /\ bf.last.currentURL = "ticket"
    /\ bf.result = "none"

-----------------------------------------------------------------------------
(* Properties of the scheduled start *)

SchedReturned == sch.pc \in {"returned", "ended"}

\* what holds of waitForScheduledTime whichever way a select with two ready
\* cases goes: nil at once for a time that is past, nil for a later time only
\* once it has been reached, and RunScraper only after nil
ScheduleBasics ==
    /\ (SchedReturned /\ sch.parses /\ sch.target < sch.now)
          => (sch.result = "nil" /\ ~sch.waited)
    /\ (sch.result = "nil" /\ sch.waited) => sch.clock >= sch.target
    /\ sch.result = "schedule cancelled" => (sch.waited /\ sch.ctxDone)
    /\ sch.started => sch.result = "nil"

\* C14 as stated: nil at once for a past time; for a later time nil only
\* after it has been reached, and "schedule cancelled" exactly when the
\* cancellation fired before the timer did; RunScraper only after nil.
C14_CancelledIffTokenFiresFirst ==
    /\ ScheduleBasics
    /\ (SchedReturned /\ sch.waited)
          => (sch.result = "schedule cancelled" <=> sch.first = "done")

\* C14, with the select as Go runs it: nil at once for a past time; for a
\* later time nil only after the timer has fired and "schedule cancelled"
\* only after the cancellation has; when only one of the two had happened as
\* the select was decided, that one is returned; RunScraper only after nil.
C14_ScheduledWaitOutcome ==
    /\ ScheduleBasics
    /\ (SchedReturned /\ sch.waited)
          => /\ sch.result = "nil" => sch.seen.timer
             /\ sch.result = "schedule cancelled" => sch.seen.done
             /\ (sch.seen.timer /\ ~sch.seen.done) => sch.result = "nil"
             /\ (sch.seen.done /\ ~sch.seen.timer)
                   => sch.result = "schedule cancelled"

\* Stop was clicked while the select was blocked before the scheduled time:
\* the wait ended with "schedule cancelled" and RunScraper was not called
C14_Witness ==
    /\ sch.pc = "ended"
    /\ sch.caller = "gui"
    /\ sch.result = "schedule cancelled"
    /\ sch.first = "done"
    /\ ~sch.fired
    /\ sch.clock < sch.target
    /\ ~sch.started

-----------------------------------------------------------------------------
(* Properties of the persisted files *)

\* writer w is between fileMutex.Lock() and the deferred Unlock()
InCriticalSection(w) ==
    wr[w].pc \in {"read", "write", "write_end", "rename", "unlock"}

IsPrefix(a, b) == Len(a) <= Len(b) /\ SubSeq(b, 1, Len(a)) = a

C16_WritesAreTempThenRename ==
    /\ store.inPlace = {}
    /\ store.sawPartial = {}

\* C17: when a run has returned, the receipt collection has grown by one
\* receipt for each of its successful iterations.
C17_ReceiptPerSuccessfulIteration ==
    \A b \in Bots :
        pc[b] = "returned"
            => Len(store.bookings.items) = store.initial + succ[b]

\* C18: the receipt file is append-only: when an append returns, the receipts
\* that were in the file when it began are a prefix of what the file holds,
\* also when the file could not be parsed.
C18_ReceiptFileAppendOnly ==
    \A w \in Writers :
        wr[w].pc = "unlock" => IsPrefix(wr[w].before, store.bookings.items)

-----------------------------------------------------------------------------
(* Properties of fatal configuration errors *)

\* quantity or max-tickets of b is not a positive integer
NotPositiveIntegers(b) ==
    ~(/\ Quantity(b).ok /\ Quantity(b).val > 0
      /\ MaxTickets(b).ok /\ MaxTickets(b).val > 0)

\* C19: in loop mode, when quantity or max-tickets is non-numeric, zero or
\* negative, the run returns from "Determine Loop Count" with an error: it
\* never goes on to the navigation and to an iteration.
C19_InvalidLoopConfigIsFatal ==
    \A b \in Bots :
        (cfg[b].Loop /\ NotPositiveIntegers(b)) => ~Planned(b)

\* C20: when the booking handler has ended on the pre-sale form with no code
\* configured, the run's next step is its return: the iteration is not
\* retried.
C20_MissingPreSaleCodeIsFatal ==
    [][\A b \in Bots :
          (presaleErr[b] /\ pc[b] = "rs_fail" /\ pc'[b] # pc[b])
              => pc'[b] = "release_ctx"]_vars

-----------------------------------------------------------------------------
(* Properties of the orchestrator and of the dispatch loop *)

\* C21: in loop mode with quantity q > 0 and max-tickets m > 0 every planned
\* iteration requests the configured q, so the run requests numLoops * q
\* tickets in all: at least m and less than m + q.
C21_TotalRequestedCoversMax ==
    \A b \in Bots :
        (/\ Planned(b) /\ cfg[b].Loop
         /\ Quantity(b).ok /\ Quantity(b).val > 0
         /\ MaxTickets(b).ok /\ MaxTickets(b).val > 0)
        => LET total == numLoops[b] * Quantity(b).val
           IN /\ total >= MaxTickets(b).val
              /\ total < MaxTickets(b).val + Quantity(b).val

\* C22: once the run's cancellation token has fired the run begins no new
\* dispatch cycle: the head of a cycle does not go on to read the URL, and
\* no handler is dispatched.
C22_NoDispatchAfterCancel ==
    [][\A b \in Bots :
          cancelled[b]
              => /\ ~(pc[b] = "mf_top" /\ pc'[b] = "mf_url")
                 /\ ~(pc[b] = "mf_url" /\ pc'[b] \in {"mf_top", "rs_ok"})]_vars

\* C23: RunScraper returns only when all planned iterations have succeeded,
\* when the token has fired, or on a configuration error: a first navigation
\* that failed ends the run only when the token had fired.
C23_RunEndsOnlyForThreeReasons ==
    \A b \in Bots :
        /\ exit[b] \in {"none", "complete", "stopped", "invalid_quantity",
                        "invalid_max", "nav_failed"}
        /\ exit[b] = "complete" => succ[b] >= numLoops[b]
        /\ exit[b] = "stopped" => cancelled[b]
        /\ exit[b] = "nav_failed" => cancelled[b]

SafeStartPage(c) ==
    IF c.EventID # "" /\ c.TicketID # "" THEN AreaURL ELSE GameURL

\* C25: an iteration is counted as succeeded exactly by the dispatch cycle
\* that read the checkout URL, and that cycle leaves the browser on the safe
\* starting page, from which the next iteration starts.
C25_SuccessIffCheckoutThenSafePage ==
    [][\A b \in Bots :
          /\ (succ'[b] # succ[b] \/ (pc'[b] = "rs_ok" /\ pc[b] # "rs_ok"))
                => /\ pc[b] = "mf_url" /\ Route(url[b]) = "checkout"
                   /\ succ'[b] = succ[b] + 1 /\ pc'[b] = "rs_ok"
                   /\ url'[b] = SafeStartPage(cfg[b])
          /\ (pc[b] = "mf_url" /\ Route(url[b]) = "checkout")
                => pc'[b] \in {"mf_url", "rs_ok", "rs_fail"}
          /\ i'[b] # i[b] => pc[b] = "rs_ok"
      ]_vars

\* the pattern whose case of the switch dispatches handler h
PatternOf(h) ==
    CHOOSE p \in UNION PageURLs : Route({p}) = h

\* C26: the handler of a dispatch cycle is a function of the URL read: for a
\* URL that contains several patterns it is the handler of the most specific,
\* that is the longest, of them; for a URL that contains none the cycle only
\* waits and reads the URL again, reporting nothing.
C26_MostSpecificPatternWins ==
    [][\A b \in Bots :
          pc[b] = "mf_url"
             => LET h == Route(url[b])
                IN /\ url[b] # {}
                        => /\ h # "unknown" /\ PatternOf(h) \in url[b]
                           /\ \A p \in url[b] : Len(p) <= Len(PatternOf(h))
                   /\ (url[b] = {} /\ ~sess[b].ctxDone)
                        => /\ h = "unknown"
                           /\ pc'[b] \in {"mf_url", "mf_top", "rs_fail"}
                           /\ succ'[b] = succ[b]
      ]_vars

\* C27: a dispatch cycle that reads the pre-sale verification URL, with a
\* pre-sale code configured, submits the code: when the cycle is over the
\* browser has left the page the cycle found it on.
C27_VerifyPageSubmitsCode ==
    [][\A b \in Bots :
          (/\ pc[b] = "mf_url" /\ Route(url[b]) = "verify"
           /\ cfg[b].PreSaleCode # ""
           /\ pc'[b] = "mf_top")
              => url'[b] # url[b]]_vars

-----------------------------------------------------------------------------
(* Properties of the handlers' retry loops *)

\* C28: every call of a submission handler returns.
C28_HandlerCallTerminates == <>(bf.pc = "returned")

\* C29: the solver's wait for the captcha image ends: whenever
\* fastProcessCaptcha has been called it returns, with the text or with an
\* error that consumes one retry.
C29_CaptchaWaitIsBounded ==
    [](bf.pc = "captcha" => <>(bf.pc # "captcha"))

\* C30: an attempt after which the page shows error text is a failed
\* attempt, whatever the two URLs are: the handler has not returned true, and
\* the page was reloaded for the next attempt.
C30_ErrorTextIsFailedAttempt ==
    [][(bf.pc = "submit" /\ bf'.pc # "submit" /\ bf'.last.pageError # "")
          => /\ bf'.result # "true"
             /\ bf'.pc = "loop"
             /\ bf'.reloads = bf.reloads + 1
             /\ bf'.j = bf.j + 1]_vars

-----------------------------------------------------------------------------
(* Properties of validation and of the iteration plan *)

\* C31: in loop mode, when quantity and max-tickets are integers and one of
\* them is not greater than 0, the run plans one iteration, and is complete
\* after one success.
C31_NonPositiveDegradesToOneIteration ==
    \A b \in Bots :
        (/\ cfg[b].Loop
         /\ Quantity(b).ok /\ MaxTickets(b).ok
         /\ (Quantity(b).val <= 0 \/ MaxTickets(b).val <= 0))
        => /\ Planned(b) => numLoops[b] = 1
           /\ exit[b] = "complete" => succ[b] = 1
           /\ succ[b] <= 1

\* a run in loop mode with quantity 0 has completed its one iteration
C31_Witness ==
    /\ cfg["botA"].Loop
    /\ cfg["botA"].PerOrderTicket = <<"0">>
    /\ cfg["botA"].MaxTickets = <<"3">>
    /\ exit["botA"] = "complete"
    /\ succ["botA"] = 1

\* C32: validation comes before the session: a run that ended on an invalid
\* configuration has acquired no browser session, and the first navigation
\* is made only with a configuration that passed validation.
C32_ValidationPrecedesSession ==
    \A b \in Bots :
        /\ exit[b] \in {"invalid_quantity", "invalid_max"} => acq[b] = 0
        /\ ~(Quantity(b).ok /\ MaxTickets(b).ok)
              => pc[b] \notin {"rs_nav", "rs_loop", "mf_top", "mf_url",
                               "rs_ok", "rs_fail"}

\* C39: every run that passed validation plans at least one iteration, and
\* none reports completion without a successful iteration.
C39_AtLeastOneIteration ==
    \A b \in Bots :
        /\ Planned(b) => numLoops[b] >= 1
        /\ exit[b] = "complete" => succ[b] >= 1

-----------------------------------------------------------------------------
(* Properties of safeSaveBooking's retry loop *)

\* C33: a call of safeSaveBooking makes at most 3 attempts, holds fileMutex
\* only while it runs, always returns, and when its third attempt fails it
\* gives up with data/bookings.json as the call found it.
C33_SaveRetriesThreeTimesAndReturns ==
    /\ [](\A w \in Writers :
             /\ wr[w].fn = "safeSaveBooking" => wr[w].attempt <= MaxSaveAttempts
             /\ wr[w].pc \in {"idle", "lock"} => store.mutex # w)
    /\ [][\A w \in Writers :
             (wr[w].fn = "safeSaveBooking" /\ wr'[w].failed = wr[w].failed + 1)
             => /\ wr[w].attempt = MaxSaveAttempts
                /\ store'.bookings = store.bookings
                /\ store.bookings.items = wr[w].before]_vars
    /\ \A w \in Writers :
          (wr[w].fn = "safeSaveBooking" /\ wr[w].pc = "lock")
              ~> (wr[w].pc = "idle")

\* a call of safeSaveBooking has returned after three failed attempts
C33_Witness ==
    /\ wr["w1"].fn = "safeSaveBooking"
    /\ wr["w1"].pc = "idle"
    /\ wr["w1"].calls = 1
    /\ wr["w1"].attempt = MaxSaveAttempts
    /\ wr["w1"].failed = 1
    /\ store.mutex # "w1"

-----------------------------------------------------------------------------
(* Properties of the dialog handlers, the shared logger and the GUI *)

\* C34: at most one call of chromedp.Run drives the browser of a run at any
\* time: no dialog-handler goroutine runs one while the dispatch loop's is in
\* flight, and no two handler goroutines run theirs together.
C34_OneBrowserOperationInFlight == InFlight <= 1

\* C35: every line a run logs is delivered to the log sink of the bot that
\* run belongs to, whatever the order of the starts.
C35_LogLinesReachOwnSink ==
    \A d \in lg.delivered : d[1] = d[2]

\* C36: a bot has at most one active run, IsRunning is true exactly while
\* there is one, and the stored cancel function is that run's.
C36_OneActiveRunPerBot ==
    /\ Cardinality(ActiveRuns) <= 1
    /\ gbot.IsRunning <=> ActiveRuns # {}
    /\ ActiveRuns # {} => gbot.cancel \in ActiveRuns

\* C37: in no view does the UI goroutine wait for the view's mutex while it
\* is itself the holder.
C37_NoSelfDeadlockOnViewMutex ==
    \A v \in Views : ~(view[v].pc = "callee" /\ view[v].mu = "ui")

\* C38: no line is written through a logger whose file has been closed, and
\* the file a run closes when it returns is not in use by another run.
C38_LogFileOpenWhileInUse ==
    /\ ~lg.closedWrite
    /\ ~lg.closedInUse

\* C40: a session has one dialog listener however many submit attempts were
\* made, and one accepting goroutine is started per dialog.
C40_OneDialogHandlerPerSession ==
    /\ dlg.listeners <= 1
    /\ dlg.spawned = dlg.dialogs

=============================================================================
